---------------------------- MODULE Spec2Model ----------------------------
(***************************************************************************)
(* Model of the local search index of src-tauri/src/main.rs: the two       *)
(* SQLite tables message_index and media_index, the ingestion transaction  *)
(* (insert_index_records), the query builder (query_index_records,         *)
(* load_room_index_from_conn) and the smart collection classifier          *)
(* (compute_smart_collections), with the tauri commands that wrap them.    *)
(*                                                                         *)
(* Text is modelled as a sequence of one-character strings, so that the    *)
(* JSON encoding of the list columns, the space-framed search surface and  *)
(* SQL LIKE are computed character by character as the code computes them. *)
(* An SQL NULL or a Rust None is the empty sequence <<>>, a present value  *)
(* v is the one-element sequence <<v>>.                                    *)
(***************************************************************************)
EXTENDS Integers, Sequences, FiniteSets, TLC

VARIABLES
  message_index,  \* table message_index: its rows in rowid order
  media_index,    \* table media_index: its rows in rowid order
  schema,         \* whether the tables and indexes exist in the database file
  call,           \* the tauri command that has run, with its response, or idle
  committed,      \* history: per key, the record last written by an upsert that returned Ok
  conn,           \* per worker: the state of its SQLite connection
  commit_log,     \* history: the payloads committed by the workers, in commit order
  accounts,       \* the store file's value under ACCOUNTS_KEY: absent, or the account map
  task,           \* per credentials command in flight: its position and its local map
  deploy          \* the deployment in flight: its position, statuses and remote commands

vars ==
  <<message_index, media_index, schema, call, committed, conn, commit_log,
    accounts, task, deploy>>

\* The commands on the account store that can be in flight at once.
Tasks == {"t1", "t2", "t3"}

\* No credentials command is running.
IdleTask ==
  [pc |-> "idle", op |-> "none", key |-> <<>>, creds |-> <<>>, seen |-> <<>>,
   map |-> <<>>, replaced |-> <<>>, result |-> "none", runs |-> 0]

\* No deployment is running.
IdleDeploy ==
  [pc |-> "idle", config |-> <<>>, statuses |-> <<>>, commands |-> <<>>,
   outcomes |-> <<>>, install_output |-> <<>>, verify_output |-> <<>>,
   ok |-> FALSE, error |-> <<>>]

\* A fresh store file and nothing in flight.
InitOutsideIndex ==
  /\ accounts = <<>>
  /\ task = [t \in Tasks |-> IdleTask]
  /\ deploy = IdleDeploy

(***************************************************************************)
(* Text                                                                    *)
(***************************************************************************)
None == <<>>

Some(v) == <<v>>

IsSome(o) == Len(o) = 1

Unwrap(o) == o[1]

RECURSIVE Concat(_)
\* [String]::concat: the strings of a list one after the other.
Concat(parts) ==
  IF parts = <<>> THEN <<>> ELSE Head(parts) \o Concat(Tail(parts))

RECURSIVE Join(_, _)
\* [String]::join(sep)
Join(parts, sep) ==
  IF parts = <<>> THEN <<>>
  ELSE IF Len(parts) = 1 THEN Head(parts)
  ELSE Head(parts) \o sep \o Join(Tail(parts), sep)

\* The ASCII capital letters of the model's alphabet with their lower case.
AsciiUpper == [c \in {"A", "B", "H", "I", "L"} |->
                 CASE c = "A" -> "a" [] c = "B" -> "b" [] c = "H" -> "h"
                   [] c = "I" -> "i" [] c = "L" -> "l"]

\* A capital letter outside ASCII with its lower case, each one character:
\* E with acute accent.
UnicodeUpper == [c \in {"E_ACUTE"} |-> "e_acute"]

\* str::to_lowercase on one character: Unicode case mapping
RustLowerChar(c) ==
  IF c \in DOMAIN AsciiUpper THEN AsciiUpper[c]
  ELSE IF c \in DOMAIN UnicodeUpper THEN UnicodeUpper[c]
  ELSE c

\* str::to_lowercase
to_lowercase(s) == [i \in 1..Len(s) |-> RustLowerChar(s[i])]

\* SQLite's built-in LOWER(): ASCII letters only
SqlLowerChar(c) == IF c \in DOMAIN AsciiUpper THEN AsciiUpper[c] ELSE c

SqlLower(s) == [i \in 1..Len(s) |-> SqlLowerChar(s[i])]

WhiteSpace == {" ", "\n", "\t", "\r"}

RECURSIVE TrimStart(_)
TrimStart(s) ==
  IF s # <<>> /\ Head(s) \in WhiteSpace THEN TrimStart(Tail(s)) ELSE s

RECURSIVE TrimEnd(_)
TrimEnd(s) ==
  IF s # <<>> /\ s[Len(s)] \in WhiteSpace
  THEN TrimEnd(SubSeq(s, 1, Len(s) - 1)) ELSE s

\* str::trim
Trim(s) == TrimEnd(TrimStart(s))

RECURSIVE Like(_, _)
\* SQLite's LIKE without ESCAPE: % matches any run of characters, _ any one
\* character, letters compare without regard to ASCII case.
Like(pattern, text) ==
  IF pattern = <<>> THEN text = <<>>
  ELSE IF Head(pattern) = "%"
    THEN Like(Tail(pattern), text)
         \/ (text # <<>> /\ Like(pattern, Tail(text)))
  ELSE IF Head(pattern) = "_"
    THEN text # <<>> /\ Like(Tail(pattern), Tail(text))
  ELSE text # <<>>
       /\ SqlLowerChar(Head(pattern)) = SqlLowerChar(Head(text))
       /\ Like(Tail(pattern), Tail(text))

\* column LIKE pattern on a nullable column: NULL LIKE x is NULL, which a
\* WHERE clause treats as false.
ColumnLike(column, pattern) == IsSome(column) /\ Like(pattern, Unwrap(column))

RECURSIVE SeqOf(_)
\* The elements of a finite set in some order.
SeqOf(S) ==
  IF S = {} THEN <<>>
  ELSE LET x == CHOOSE x \in S : TRUE IN <<x>> \o SeqOf(S \ {x})

Range(seq) == {seq[i] : i \in 1..Len(seq)}

(***************************************************************************)
(* The JSON encoding of the list columns                                   *)
(***************************************************************************)
\* The control characters of the alphabet with the letter of their escape.
ControlEscape == [c \in {"\n", "\t", "\r", "\f"} |->
                    CASE c = "\n" -> "n" [] c = "\t" -> "t"
                      [] c = "\r" -> "r" [] c = "\f" -> "f"]

\* Mutant of EscapeChar: only the quote is escaped, a backslash is written
\* as it is.
EscapeCharQuoteOnly(c) ==
  IF c = "\"" THEN <<"\\", "\"">>
  ELSE IF c \in DOMAIN ControlEscape THEN <<"\\", ControlEscape[c]>>
  ELSE <<c>>

\* serde_json's string escaping of one character
EscapeChar(c) ==
  IF c = "\"" THEN <<"\\", "\"">>
  ELSE IF c = "\\" THEN <<"\\", "\\">>
  ELSE IF c \in DOMAIN ControlEscape THEN <<"\\", ControlEscape[c]>>
  ELSE <<c>>

JsonQuote(s) ==
  <<"\"">> \o Concat([i \in 1..Len(s) |-> EscapeChar(s[i])]) \o <<"\"">>

\* serde_json::to_string(&Vec<String>): it cannot fail for a list of strings
to_json_string(values) ==
  <<"[">> \o Join([i \in 1..Len(values) |-> JsonQuote(values[i])], <<",">>)
          \o <<"]">>

\* What a backslash escape of a JSON string stands for. A \u escape needs
\* four hexadecimal digits, which the alphabet of the model does not have.
JsonUnescape == [c \in {"\"", "\\", "/", "n", "t", "r", "f"} |->
                   CASE c = "\"" -> "\"" [] c = "\\" -> "\\" [] c = "/" -> "/"
                     [] c = "n" -> "\n" [] c = "t" -> "\t"
                     [] c = "r" -> "\r" [] c = "f" -> "\f"]

ParseFail == [ok |-> FALSE, val |-> <<>>, next |-> 0]

RECURSIVE SkipWs(_, _)
SkipWs(s, i) ==
  IF i <= Len(s) /\ s[i] \in WhiteSpace THEN SkipWs(s, i + 1) ELSE i

RECURSIVE ParseStringBody(_, _, _)
\* The characters of a JSON string from position i, the opening quote read.
ParseStringBody(s, i, acc) ==
  IF i > Len(s) THEN ParseFail
  ELSE IF s[i] = "\"" THEN [ok |-> TRUE, val |-> acc, next |-> i + 1]
  ELSE IF s[i] = "\\"
    THEN IF i + 1 <= Len(s) /\ s[i + 1] \in DOMAIN JsonUnescape
         THEN ParseStringBody(s, i + 2, Append(acc, JsonUnescape[s[i + 1]]))
         ELSE ParseFail
  ELSE IF s[i] \in DOMAIN ControlEscape THEN ParseFail
  ELSE ParseStringBody(s, i + 1, Append(acc, s[i]))

\* After the closing bracket only white space may follow.
ParseEnd(s, i, acc) ==
  IF SkipWs(s, i) > Len(s) THEN [ok |-> TRUE, val |-> acc, next |-> Len(s) + 1]
  ELSE ParseFail

RECURSIVE ParseItems(_, _, _)
\* The elements of a JSON array of strings from position i.
ParseItems(s, i, acc) ==
  IF i > Len(s) \/ s[i] # "\"" THEN ParseFail
  ELSE LET r == ParseStringBody(s, i + 1, <<>>)
           j == SkipWs(s, r.next)
       IN IF ~r.ok \/ j > Len(s) THEN ParseFail
          ELSE IF s[j] = "," THEN ParseItems(s, SkipWs(s, j + 1), Append(acc, r.val))
          ELSE IF s[j] = "]" THEN ParseEnd(s, j + 1, Append(acc, r.val))
          ELSE ParseFail

\* serde_json::from_str::<Vec<String>>
from_str(s) ==
  LET i == SkipWs(s, 1)
  IN IF i > Len(s) \/ s[i] # "[" THEN ParseFail
     ELSE LET j == SkipWs(s, i + 1)
          IN IF j <= Len(s) /\ s[j] = "]" THEN ParseEnd(s, j + 1, <<>>)
             ELSE ParseItems(s, j, <<>>)

\* parse_vec: the decoded list, or the empty list when the text is no JSON
\* array of strings (unwrap_or_default).
parse_vec(json_value) ==
  LET r == from_str(json_value) IN IF r.ok THEN r.val ELSE <<>>

(***************************************************************************)
(* Ingestion: insert_index_records                                         *)
(***************************************************************************)
\* The search surface: the tokens joined by single spaces, framed by a
\* leading and a trailing space.
SearchTokens(tokens) == <<" ">> \o Join(tokens, <<" ">>) \o <<" ">>

\* The values bound to ?1..?11 for one IndexedMessageRecord.
MessageParams(message) ==
  [room_id          |-> message.room_id,
   event_id         |-> message.event_id,
   sender           |-> message.sender,
   timestamp        |-> message.timestamp,
   body             |-> message.body,
   search_tokens    |-> Some(SearchTokens(message.tokens)),
   tokens_json      |-> Some(to_json_string(message.tokens)),
   tags_json        |-> Some(to_json_string(message.tags)),
   reactions_json   |-> Some(to_json_string(message.reactions)),
   has_media        |-> IF message.has_media THEN 1 ELSE 0,
   media_types_json |-> Some(to_json_string(message.media_types))]

\* Mutant of MessageConflict: the conflict target is event_id alone.
MessageConflictEventOnly(row, excluded) == row.event_id = excluded.event_id

\* ON CONFLICT(room_id, event_id): the conflict target of message_index
MessageConflict(row, excluded) ==
  row.room_id = excluded.room_id /\ row.event_id = excluded.event_id

\* Mutant of MessageDoUpdate: the SET list without body, so that the body of
\* the earlier write survives.
MessageDoUpdateKeepBody(row, excluded) ==
  [row EXCEPT !.sender = excluded.sender,
              !.timestamp = excluded.timestamp,
              !.search_tokens = excluded.search_tokens,
              !.tokens_json = excluded.tokens_json,
              !.tags_json = excluded.tags_json,
              !.reactions_json = excluded.reactions_json,
              !.has_media = excluded.has_media,
              !.media_types_json = excluded.media_types_json]

\* Mutant of MessageDoUpdate: ON CONFLICT DO NOTHING, the stored row stays.
MessageDoNothing(row, excluded) == row

\* DO UPDATE SET ... = excluded. ... of message_index
MessageDoUpdate(row, excluded) ==
  [row EXCEPT !.sender = excluded.sender,
              !.timestamp = excluded.timestamp,
              !.body = excluded.body,
              !.search_tokens = excluded.search_tokens,
              !.tokens_json = excluded.tokens_json,
              !.tags_json = excluded.tags_json,
              !.reactions_json = excluded.reactions_json,
              !.has_media = excluded.has_media,
              !.media_types_json = excluded.media_types_json]

\* Mutant of UpsertMessage: a plain INSERT without the ON CONFLICT clause,
\* which stores a second row for a key that is already stored.
UpsertMessageInsertOnly(table, message) == Append(table, MessageParams(message))

\* INSERT INTO message_index ... ON CONFLICT ... DO UPDATE, one statement:
\* a conflicting row is updated in place (it keeps its rowid), a new row is
\* appended.
UpsertMessage(table, message) ==
  LET excluded == MessageParams(message)
  IN IF \E i \in 1..Len(table) : MessageConflict(table[i], excluded)
     THEN [i \in 1..Len(table) |->
             IF MessageConflict(table[i], excluded)
             THEN MessageDoUpdate(table[i], excluded) ELSE table[i]]
     ELSE Append(table, excluded)

\* ON CONFLICT(id): the conflict target of media_index
MediaConflict(row, excluded) == row.id = excluded.id

\* Mutant of MediaDoUpdate: room_id is left out of the SET list.
MediaDoUpdateKeepRoom(row, excluded) ==
  [excluded EXCEPT !.id = row.id, !.room_id = row.room_id]

\* DO UPDATE SET ... = excluded. ... of media_index
MediaDoUpdate(row, excluded) ==
  [row EXCEPT !.event_id = excluded.event_id,
              !.room_id = excluded.room_id,
              !.media_type = excluded.media_type,
              !.mxc_url = excluded.mxc_url,
              !.thumbnail_mxc = excluded.thumbnail_mxc,
              !.file_name = excluded.file_name,
              !.size = excluded.size,
              !.mimetype = excluded.mimetype,
              !.sender = excluded.sender,
              !.timestamp = excluded.timestamp,
              !.body = excluded.body,
              !.url = excluded.url]

\* The values bound to ?1..?13 for one MediaItemRecord; sender and timestamp
\* are nullable columns of media_index and always written.
MediaParams(item) ==
  [item EXCEPT !.sender = Some(item.sender), !.timestamp = Some(item.timestamp)]

\* INSERT INTO media_index ... ON CONFLICT(id) DO UPDATE, one statement
UpsertMedia(table, item) ==
  LET excluded == MediaParams(item)
  IN IF \E i \in 1..Len(table) : MediaConflict(table[i], excluded)
     THEN [i \in 1..Len(table) |->
             IF MediaConflict(table[i], excluded)
             THEN MediaDoUpdate(table[i], excluded) ELSE table[i]]
     ELSE Append(table, excluded)

RECURSIVE ExecuteMessages(_, _)
\* for message in &payload.messages { tx.execute(...) }
ExecuteMessages(table, messages) ==
  IF messages = <<>> THEN table
  ELSE ExecuteMessages(UpsertMessage(table, Head(messages)), Tail(messages))

RECURSIVE ExecuteMedia(_, _)
\* for item in &payload.media_items { tx.execute(...) }
ExecuteMedia(table, items) ==
  IF items = <<>> THEN table
  ELSE ExecuteMedia(UpsertMedia(table, Head(items)), Tail(items))

\* The number of statements of a payload's transaction.
Statements(payload) == Len(payload.messages) + Len(payload.media_items)

\* The pages of the transaction after its first `done` statements.
Working(db, payload, done) ==
  LET n == Len(payload.messages)
      k == IF done < n THEN done ELSE n
  IN [messages |-> ExecuteMessages(db.messages, SubSeq(payload.messages, 1, k)),
      media    |-> ExecuteMedia(db.media, SubSeq(payload.media_items, 1, done - k))]

\* Mutant of Rollback: the statements run without a transaction, each one
\* committed as it is executed.
RollbackKeepsWork(db, working) == working

\* Mutant of Rollback: the failed transaction leaves the tables empty.
RollbackToEmpty(db, working) == [messages |-> <<>>, media |-> <<>>]

\* A `?` that leaves insert_index_records drops the Transaction, whose drop
\* behaviour is a rollback: the database is as before the transaction.
Rollback(db, working) == db

\* Mutant of Commit: the transaction is dropped instead of committed.
CommitDropped(db, working) == db

\* tx.commit()
Commit(db, working) == working

\* Mutant of insert_index_records: no early return, an empty payload opens
\* and commits a transaction like any other.
InsertAlwaysInTransaction(db, payload, fault) ==
  IF fault = 0
  THEN [ok |-> TRUE, db |-> Commit(db, Working(db, payload, Statements(payload)))]
  ELSE [ok |-> FALSE, db |-> Rollback(db, Working(db, payload, fault - 1))]

\* insert_index_records(conn, payload). A fault is the storage failing:
\* 0 is no failure, k in 1..Statements the k-th tx.execute returning an
\* error (a failure of conn.transaction() is like that of the first
\* statement), Statements + 1 the commit returning an error. A payload with
\* both lists empty returns before it touches storage and meets no failure.
insert_index_records(db, payload, fault) ==
  IF payload.messages = <<>> /\ payload.media_items = <<>>
  THEN [ok |-> TRUE, db |-> db]
  ELSE IF fault = 0
    THEN [ok |-> TRUE, db |-> Commit(db, Working(db, payload, Statements(payload)))]
    ELSE [ok |-> FALSE, db |-> Rollback(db, Working(db, payload, fault - 1))]

(***************************************************************************)
(* Queries: query_index_records, load_room_index_from_conn                 *)
(***************************************************************************)
\* " AND room_id = ?"
RoomClause(row, query) ==
  IsSome(query.room_id) => row.room_id = Unwrap(query.room_id)

\* " AND sender IN (?, ...)", added for a present and non-empty list only
SendersClause(row, query) ==
  (IsSome(query.senders) /\ Unwrap(query.senders) # <<>>)
    => \E i \in 1..Len(Unwrap(query.senders)) : row.sender = Unwrap(query.senders)[i]

\* Mutant of FromTsClause: the lower bound is exclusive.
FromTsClauseStrict(row, query) ==
  IsSome(query.from_ts) => row.timestamp > Unwrap(query.from_ts)

\* " AND timestamp >= ?"
FromTsClause(row, query) ==
  IsSome(query.from_ts) => row.timestamp >= Unwrap(query.from_ts)

\* " AND timestamp <= ?"
ToTsClause(row, query) ==
  IsSome(query.to_ts) => row.timestamp <= Unwrap(query.to_ts)

\* " AND has_media = 1", added when has_media.unwrap_or(false)
HasMediaClause(row, query) ==
  (IsSome(query.has_media) /\ Unwrap(query.has_media)) => row.has_media = 1

\* format!("%\"{}\"%", media)
MediaPattern(media) == <<"%", "\"">> \o media \o <<"\"", "%">>

\* " AND media_types_json LIKE ?", once for each requested media type
MediaTypesClause(row, query) ==
  IsSome(query.media_types)
    => \A i \in 1..Len(Unwrap(query.media_types)) :
         ColumnLike(row.media_types_json, MediaPattern(Unwrap(query.media_types)[i]))

\* format!("% {} %", token)
TokenPattern(token) == <<"%", " ">> \o token \o <<" ", "%">>

\* " AND search_tokens LIKE ?" for the lowercased mention target
MentionClause(row, mention_target) ==
  IsSome(mention_target)
    => ColumnLike(row.search_tokens, TokenPattern(to_lowercase(Unwrap(mention_target))))

\* LOWER(column) of a nullable column: LOWER(NULL) is NULL
LowerColumn(column) == IF IsSome(column) THEN Some(SqlLower(Unwrap(column))) ELSE None

\* format!("%{}%", lower)
ContainsPattern(lower) == <<"%">> \o lower \o <<"%">>

\* " AND (LOWER(IFNULL(body,'')) LIKE ? OR LOWER(sender) LIKE ? OR
\*   LOWER(tags_json) LIKE ? OR LOWER(reactions_json) LIKE ? OR search_tokens LIKE ?)",
\* added for a term that is not empty after trim()
TermClause(row, query) ==
  (IsSome(query.term) /\ Trim(Unwrap(query.term)) # <<>>)
    => LET lower == to_lowercase(Trim(Unwrap(query.term)))
           like == ContainsPattern(lower)
       IN \/ Like(like, SqlLower(IF IsSome(row.body) THEN Unwrap(row.body) ELSE <<>>))
          \/ Like(like, SqlLower(row.sender))
          \/ ColumnLike(LowerColumn(row.tags_json), like)
          \/ ColumnLike(LowerColumn(row.reactions_json), like)
          \/ ColumnLike(row.search_tokens, TokenPattern(lower))

\* The WHERE clause query_index_records builds: 1=1 and every added clause.
Where(row, query, mention_target) ==
  /\ RoomClause(row, query)
  /\ SendersClause(row, query)
  /\ FromTsClause(row, query)
  /\ ToTsClause(row, query)
  /\ HasMediaClause(row, query)
  /\ MediaTypesClause(row, query)
  /\ MentionClause(row, mention_target)
  /\ TermClause(row, query)

\* Mutant of SortsBefore: ORDER BY timestamp ASC.
SortsBeforeAscending(a, b) ==
  IF b = None THEN FALSE ELSE IF a = None THEN TRUE ELSE Unwrap(a) < Unwrap(b)

\* a sorts before b under ORDER BY timestamp DESC; in SQLite a NULL is
\* smaller than every integer and so comes last.
SortsBefore(a, b) ==
  IF a = None THEN FALSE ELSE IF b = None THEN TRUE ELSE Unwrap(a) > Unwrap(b)

RECURSIVE InsertSorted(_, _)
\* An entry [key, row] put into an ordered list, after the entries that do
\* not sort after it.
InsertSorted(sorted, entry) ==
  IF sorted = <<>> THEN <<entry>>
  ELSE IF SortsBefore(entry.key, Head(sorted).key) THEN <<entry>> \o sorted
  ELSE <<Head(sorted)>> \o InsertSorted(Tail(sorted), entry)

RECURSIVE SortFrom(_, _)
SortFrom(sorted, entries) ==
  IF entries = <<>> THEN sorted
  ELSE SortFrom(InsertSorted(sorted, Head(entries)), Tail(entries))

\* " ORDER BY timestamp DESC" over rows given with their timestamp column as
\* key: rows of equal timestamp stay in the order of the scan, here the
\* rowid order.
OrderByTimestampDesc(entries) ==
  LET sorted == SortFrom(<<>>, entries)
  IN [i \in 1..Len(sorted) |-> sorted[i].row]

\* " LIMIT ?", added when the query has a limit
Limit(rows, limit) ==
  IF IsSome(limit) /\ Unwrap(limit) < Len(rows)
  THEN SubSeq(rows, 1, Unwrap(limit)) ELSE rows

\* The query_map closure for a message row: row.get of a String fails on a
\* NULL column, and the row is then an Err; otherwise the record, its lists
\* decoded by parse_vec.
MessageFromRow(row) ==
  IF \/ row.tokens_json = None \/ row.tags_json = None
     \/ row.reactions_json = None \/ row.media_types_json = None
  THEN None
  ELSE Some([event_id    |-> row.event_id,
             room_id     |-> row.room_id,
             sender      |-> row.sender,
             timestamp   |-> row.timestamp,
             body        |-> row.body,
             tokens      |-> parse_vec(Unwrap(row.tokens_json)),
             tags        |-> parse_vec(Unwrap(row.tags_json)),
             reactions   |-> parse_vec(Unwrap(row.reactions_json)),
             has_media   |-> row.has_media # 0,
             media_types |-> parse_vec(Unwrap(row.media_types_json))])

\* The query_map closure for a media row: sender and timestamp are read as
\* String and i64 and fail on NULL.
MediaFromRow(row) ==
  IF row.sender = None \/ row.timestamp = None THEN None
  ELSE Some([row EXCEPT !.sender = Unwrap(row.sender),
                        !.timestamp = Unwrap(row.timestamp)])

\* The rows the statement yields before a failing sqlite3_step: step `fault`
\* fails (0: none does), the iterator yields that one Err and then ends.
Stepped(rows, fault) ==
  IF fault >= 1 /\ fault <= Len(rows) THEN SubSeq(rows, 1, fault - 1) ELSE rows

RECURSIVE CollectMessages(_)
\* for row in rows { if let Ok(record) = row { out.push(record); } }
CollectMessages(rows) ==
  IF rows = <<>> THEN <<>>
  ELSE MessageFromRow(Head(rows)) \o CollectMessages(Tail(rows))

RECURSIVE CollectMedia(_)
\* for row in media_rows { if let Ok(item) = row { media.push(item); } }
CollectMedia(rows) ==
  IF rows = <<>> THEN <<>>
  ELSE MediaFromRow(Head(rows)) \o CollectMedia(Tail(rows))

\* The rows of a message table keyed by their timestamp column.
MessageEntries(rows) ==
  [i \in 1..Len(rows) |-> [key |-> Some(rows[i].timestamp), row |-> rows[i]]]

\* The rows of a media table keyed by their (nullable) timestamp column.
MediaEntries(rows) ==
  [i \in 1..Len(rows) |-> [key |-> rows[i].timestamp, row |-> rows[i]]]

\* Mutant of QueryRows: the limit cuts the table before the rows are
\* filtered and ordered.
QueryRowsLimitFirst(table, query, mention_target) ==
  OrderByTimestampDesc(MessageEntries(
    SelectSeq(Limit(table, query.limit),
              LAMBDA row : Where(row, query, mention_target))))

\* The rows the SELECT of query_index_records yields.
QueryRows(table, query, mention_target) ==
  Limit(OrderByTimestampDesc(MessageEntries(
          SelectSeq(table, LAMBDA row : Where(row, query, mention_target)))),
        query.limit)

\* query_index_records(conn, query, mention_target). Fault -1 is conn.prepare
\* or query_map failing, fault k >= 1 the k-th sqlite3_step failing.
query_index_records(table, query, mention_target, fault) ==
  IF fault = -1 THEN [ok |-> FALSE, records |-> <<>>]
  ELSE [ok |-> TRUE,
        records |-> CollectMessages(
                      Stepped(QueryRows(table, query, mention_target), fault))]

\* The rows of the two SELECTs of load_room_index_from_conn.
RoomMessageRows(table, room_id) ==
  OrderByTimestampDesc(MessageEntries(
    SelectSeq(table, LAMBDA row : row.room_id = room_id)))

\* Mutant of RoomMediaRows: the media statement has no WHERE clause.
RoomMediaRowsAllRooms(table, room_id) ==
  OrderByTimestampDesc(MediaEntries(table))

RoomMediaRows(table, room_id) ==
  OrderByTimestampDesc(MediaEntries(
    SelectSeq(table, LAMBDA row : row.room_id = room_id)))

\* load_room_index_from_conn(conn, room_id). Fault -1 is a prepare or
\* query_map failing, fault k >= 1 the k-th sqlite3_step of the messages
\* statement failing.
load_room_index_from_conn(db, room_id, fault) ==
  IF fault = -1 THEN [ok |-> FALSE, messages |-> <<>>, media |-> <<>>]
  ELSE [ok |-> TRUE,
        messages |-> CollectMessages(
                       Stepped(RoomMessageRows(db.messages, room_id), fault)),
        media |-> CollectMedia(RoomMediaRows(db.media, room_id))]

(***************************************************************************)
(* Smart collections: compute_smart_collections                            *)
(***************************************************************************)
\* str::split(':').next(): the text before the first ':', all of it when
\* there is none.
RECURSIVE BeforeColon(_)
BeforeColon(s) ==
  IF s = <<>> \/ Head(s) = ":" THEN <<>> ELSE <<Head(s)>> \o BeforeColon(Tail(s))

\* Mutant of TrimStartMatchesAt: one leading '@' removed (strip_prefix).
TrimStartOneAt(s) ==
  IF s # <<>> /\ Head(s) = "@" THEN Tail(s) ELSE s

RECURSIVE TrimStartMatchesAt(_)
\* str::trim_start_matches('@'): every leading '@' removed
TrimStartMatchesAt(s) ==
  IF s # <<>> /\ Head(s) = "@" THEN TrimStartMatchesAt(Tail(s)) ELSE s

\* normalized_localpart(user_id)
normalized_localpart(user_id) ==
  TrimStartMatchesAt(BeforeColon(to_lowercase(user_id)))

\* The emphasis glyphs of the first COUNT(*): a star, a flame and an
\* exclamation mark, each one character.
EmphasisGlyphs == {"STAR", "FIRE", "BANG"}

\* tags_json LIKE '%"important"%' OR reactions_json LIKE '%"<glyph>"%' ...
ImportantWhere(row) ==
  \/ ColumnLike(row.tags_json,
                MediaPattern(<<"i", "m", "p", "o", "r", "t", "a", "n", "t">>))
  \/ \E g \in EmphasisGlyphs : ColumnLike(row.reactions_json, MediaPattern(<<g>>))

\* format!("%@{}%", local)
MentionPattern(local) == <<"%", "@">> \o local \o <<"%">>

\* search_tokens LIKE ?1 OR LOWER(IFNULL(body,'')) LIKE ?2
MentionsWhere(row, local) ==
  \/ ColumnLike(row.search_tokens, TokenPattern(local))
  \/ Like(MentionPattern(local),
          SqlLower(IF IsSome(row.body) THEN Unwrap(row.body) ELSE <<>>))

\* SELECT COUNT(*) ... with unwrap_or(0): a failing query counts as 0.
ImportantCount(table, failed) ==
  IF failed THEN 0 ELSE Len(SelectSeq(table, ImportantWhere))

MentionsCount(table, local, failed) ==
  IF failed THEN 0
  ELSE Len(SelectSeq(table, LAMBDA row : MentionsWhere(row, local)))

ImportantCollection(count) ==
  [id |-> "important", label |-> "label:important",
   description |-> "description:important", count |-> count,
   token |-> "smart:important"]

MentionsCollection(count) ==
  [id |-> "mentions", label |-> "label:mentions",
   description |-> "description:mentions", count |-> count,
   token |-> "smart:mentions"]

\* compute_smart_collections(conn, user_id). Fault 1 is the first COUNT(*)
\* failing, fault 2 the second; the function itself never returns Err.
compute_smart_collections(table, user_id, fault) ==
  LET important_count == ImportantCount(table, fault = 1)
      local == normalized_localpart(user_id)
      mentions_count == MentionsCount(table, local, fault = 2)
  IN (IF important_count > 0 THEN <<ImportantCollection(important_count)>> ELSE <<>>)
     \o (IF local # <<>> /\ mentions_count > 0
         THEN <<MentionsCollection(mentions_count)>> ELSE <<>>)

(***************************************************************************)
(* The tauri commands, run one at a time                                   *)
(***************************************************************************)
\* Mutant of CreateTableIfNotExists: DROP TABLE IF EXISTS, then CREATE TABLE.
DropAndCreateTable(exists, table) == <<>>

\* CREATE TABLE IF NOT EXISTS: an existing table keeps its rows, a missing
\* one is created empty. The statement raises no error in either case.
CreateTableIfNotExists(exists, table) == IF exists THEN table ELSE <<>>

\* The database a command works on: its connection is opened and
\* init_index_db has run on it.
DB ==
  [messages |-> CreateTableIfNotExists(schema, message_index),
   media    |-> CreateTableIfNotExists(schema, media_index)]

IdleCall == [op |-> "idle"]

\* No worker connection is in use in the sequential specifications.
NoConn == <<>>

RECURSIVE WrittenMessages(_, _)
\* History: the records last written per (room_id, event_id).
WrittenMessages(last, messages) ==
  IF messages = <<>> THEN last
  ELSE LET m == Head(messages)
       IN WrittenMessages(
            {h \in last : ~(h.room_id = m.room_id /\ h.event_id = m.event_id)} \cup {m},
            Tail(messages))

RECURSIVE WrittenMedia(_, _)
\* History: the items last written per id.
WrittenMedia(last, items) ==
  IF items = <<>> THEN last
  ELSE WrittenMedia({h \in last : h.id # Head(items).id} \cup {Head(items)},
                    Tail(items))

Written(last, payload) ==
  [messages |-> WrittenMessages(last.messages, payload.messages),
   media    |-> WrittenMedia(last.media, payload.media_items)]

\* init_index_db: CREATE TABLE / CREATE INDEX IF NOT EXISTS. It creates what
\* is missing and touches no row.
init_index_db == schema' = TRUE

\* The failures storage can hold ready for an upsert of this payload: none,
\* at one of its statements, or at what follows them (for a payload without
\* statements, at the transaction itself).
UpsertFaults(payload) == 0..(Statements(payload) + 1)

\* #[tauri::command] upsert_index_records(app, payload)
UpsertIndexRecords(payload, fault) ==
  /\ call.op = "idle"
  /\ init_index_db
  /\ LET r == insert_index_records(DB, payload, fault)
     IN /\ message_index' = r.db.messages
        /\ media_index' = r.db.media
        /\ call' = [op |-> "upsert", payload |-> payload, fault |-> fault,
                    ok |-> r.ok, before |-> DB]
        /\ committed' = IF r.ok THEN Written(committed, payload) ELSE committed
  /\ UNCHANGED <<conn, commit_log,
                 accounts, task, deploy>>

\* #[tauri::command] query_local_index(app, query, mention_target)
QueryLocalIndex(query, mention_target, fault) ==
  /\ call.op = "idle"
  /\ init_index_db
  /\ LET r == query_index_records(message_index, query, mention_target, fault)
     IN call' = [op |-> "query", query |-> query, mention_target |-> mention_target,
                 fault |-> fault, ok |-> r.ok, records |-> r.records, before |-> DB]
  /\ UNCHANGED <<message_index, media_index, committed, conn, commit_log,
                 accounts, task, deploy>>

\* #[tauri::command] load_room_index(app, room_id)
LoadRoomIndex(room_id, fault) ==
  /\ call.op = "idle"
  /\ init_index_db
  /\ LET r == load_room_index_from_conn(DB, room_id, fault)
     IN call' = [op |-> "load", room_id |-> room_id, fault |-> fault, ok |-> r.ok,
                 records |-> r.messages, media |-> r.media, before |-> DB]
  /\ UNCHANGED <<message_index, media_index, committed, conn, commit_log,
                 accounts, task, deploy>>

\* #[tauri::command] get_smart_collections(app, user_id)
GetSmartCollections(user_id, fault) ==
  /\ call.op = "idle"
  /\ init_index_db
  /\ call' = [op |-> "collections", user_id |-> user_id, fault |-> fault,
              ok |-> fault # -1,
              collections |-> IF fault = -1 THEN <<>>
                              ELSE compute_smart_collections(message_index, user_id, fault),
              before |-> DB]
  /\ UNCHANGED <<message_index, media_index, committed, conn, commit_log,
                 accounts, task, deploy>>

\* The command's future resolves: the response is handed to the caller.
Return ==
  /\ call.op # "idle"
  /\ call' = IdleCall
  /\ UNCHANGED <<message_index, media_index, schema, committed, conn, commit_log,
                 accounts, task, deploy>>

Init ==
  /\ message_index = <<>>
  /\ media_index = <<>>
  /\ schema = FALSE
  /\ call = IdleCall
  /\ committed = [messages |-> {}, media |-> {}]
  /\ conn = NoConn
  /\ commit_log = <<>>
  /\ InitOutsideIndex

(***************************************************************************)
(* Inputs of the ingestion specification                                   *)
(***************************************************************************)
MaxBatch == 2

Rooms == {"r1", "r2"}

SenderA == <<"@", "a">>

SenderB == <<"@", "B">>

\* Two contents that differ in every mutable field.
ContentA ==
  [sender |-> SenderA, timestamp |-> 1, body |-> Some(<<"h", "i">>),
   tokens |-> <<<<"h", "i">>>>, tags |-> <<>>, reactions |-> <<>>,
   has_media |-> FALSE, media_types |-> <<>>]

ContentB ==
  [sender |-> SenderB, timestamp |-> 2, body |-> None,
   tokens |-> <<<<"a">>, <<"b">>>>, tags |-> <<<<"i">>>>, reactions |-> <<<<"STAR">>>>,
   has_media |-> TRUE, media_types |-> <<<<"i", "m", "g">>>>]

Message(room_id, event_id, content) ==
  [event_id |-> event_id, room_id |-> room_id, sender |-> content.sender,
   timestamp |-> content.timestamp, body |-> content.body,
   tokens |-> content.tokens, tags |-> content.tags,
   reactions |-> content.reactions, has_media |-> content.has_media,
   media_types |-> content.media_types]

MessageKeys == {<<"r1", "e1">>, <<"r1", "e2">>, <<"r2", "e1">>}

Messages == {Message(k[1], k[2], c) : k \in MessageKeys, c \in {ContentA, ContentB}}

MediaItems ==
  {[id |-> "m1", event_id |-> "e1", room_id |-> "r1", media_type |-> <<"i", "m", "g">>,
    mxc_url |-> Some(<<"m", "x", "c">>), thumbnail_mxc |-> None,
    file_name |-> Some(<<"a">>), size |-> Some(1), mimetype |-> None,
    sender |-> SenderA, timestamp |-> 1, body |-> None, url |-> Some(<<"u">>)],
   [id |-> "m1", event_id |-> "e2", room_id |-> "r2", media_type |-> <<"v", "i", "d">>,
    mxc_url |-> None, thumbnail_mxc |-> Some(<<"t">>),
    file_name |-> None, size |-> None, mimetype |-> Some(<<"v">>),
    sender |-> SenderB, timestamp |-> 2, body |-> Some(<<"c">>), url |-> None]}

\* The sequences over a set with at most n elements.
SeqsUpTo(S, n) == UNION {[1..k -> S] : k \in 0..n}

\* The payloads of at most MaxBatch records.
Payloads ==
  {[room_id |-> r, messages |-> ms, media_items |-> is] :
     r \in Rooms,
     ms \in SeqsUpTo(Messages, MaxBatch),
     is \in SeqsUpTo(MediaItems, MaxBatch)}

BoundedPayloads == {p \in Payloads : Statements(p) <= MaxBatch}

NoQuery ==
  [term |-> None, room_id |-> None, senders |-> None, from_ts |-> None,
   to_ts |-> None, has_media |-> None, limit |-> None, media_types |-> None]

Queries ==
  {NoQuery,
   [NoQuery EXCEPT !.room_id = Some("r1")],
   [NoQuery EXCEPT !.has_media = Some(TRUE)],
   [NoQuery EXCEPT !.term = Some(<<"H", "i">>)],
   [NoQuery EXCEPT !.limit = Some(1)]}

MentionTargets == {None, Some(<<"A">>)}

UserIds == {<<"@", "A", ":", "h">>, <<"b">>}

Next ==
  \/ \E payload \in BoundedPayloads : \E fault \in UpsertFaults(payload) :
       UpsertIndexRecords(payload, fault)
  \/ \E query \in Queries : \E mention_target \in MentionTargets :
       QueryLocalIndex(query, mention_target, 0)
  \/ \E room_id \in Rooms : LoadRoomIndex(room_id, 0)
  \/ \E user_id \in UserIds : GetSmartCollections(user_id, 0)
  \/ Return

Spec == Init /\ [][Next]_vars

(***************************************************************************)
(* Properties of ingestion                                                 *)
(***************************************************************************)
SameKey(a, b) == a.room_id = b.room_id /\ a.event_id = b.event_id

\* The rows of a message table stored under the key of a record.
RowsOfKey(table, m) == SelectSeq(table, LAMBDA row : SameKey(row, m))

\* The row holds exactly the values of record m: every column read back,
\* and the search surface.
RowHolds(row, m) ==
  /\ MessageFromRow(row) = Some(m)
  /\ row.search_tokens = Some(SearchTokens(m.tokens))

\* The i-th message of a payload is the last one written under its key.
LastOfKey(messages, i) ==
  \A j \in (i + 1)..Len(messages) : ~SameKey(messages[j], messages[i])

LastOfId(items, i) ==
  \A j \in (i + 1)..Len(items) : items[j].id # items[i].id

\* Every message of the payload is stored in one row with its values.
MessagesApplied(table, payload) ==
  \A i \in 1..Len(payload.messages) :
    LastOfKey(payload.messages, i)
      => LET rows == RowsOfKey(table, payload.messages[i])
         IN Len(rows) = 1 /\ RowHolds(rows[1], payload.messages[i])

\* Every media item of the payload is stored in one row with its values.
MediaApplied(table, payload) ==
  \A i \in 1..Len(payload.media_items) :
    LastOfId(payload.media_items, i)
      => LET rows == SelectSeq(table, LAMBDA row : row.id = payload.media_items[i].id)
         IN Len(rows) = 1 /\ MediaFromRow(rows[1]) = Some(payload.media_items[i])

\* C1: after an upsert that writes a key a later upsert of the same key
\* leaves exactly one row for the key, and every mutable field of that row
\* (sender, timestamp, body, tokens, tags, reactions, has_media, media_types,
\* search surface) is that of the later write.
C1_LastWriteWins ==
  (call.op = "upsert" /\ call.ok) => MessagesApplied(message_index, call.payload)

\* A mutable field of the stored row differs from the record written.
DiffersEverywhere(row, m) ==
  /\ row.sender # m.sender
  /\ row.timestamp # m.timestamp
  /\ row.body # m.body
  /\ row.search_tokens # Some(SearchTokens(m.tokens))
  /\ row.tokens_json # Some(to_json_string(m.tokens))
  /\ row.tags_json # Some(to_json_string(m.tags))
  /\ row.reactions_json # Some(to_json_string(m.reactions))
  /\ row.has_media # (IF m.has_media THEN 1 ELSE 0)
  /\ row.media_types_json # Some(to_json_string(m.media_types))

\* C1 witness: a successful upsert overwrote a row that an earlier upsert
\* had stored with other values in every mutable field, next to other rows.
C1_Witness ==
  /\ call.op = "upsert" /\ call.ok
  /\ Len(call.before.messages) >= 2
  /\ \E i \in 1..Len(call.payload.messages) :
       \E r \in 1..Len(call.before.messages) :
         /\ SameKey(call.before.messages[r], call.payload.messages[i])
         /\ DiffersEverywhere(call.before.messages[r], call.payload.messages[i])

\* C2: an upsert of a non-empty batch either returns Ok with every message
\* and media record applied, or returns an error with both tables exactly
\* as before the call.
C2_Atomic ==
  (call.op = "upsert" /\ Statements(call.payload) > 0)
    => IF call.ok
       THEN /\ call.fault = 0
            /\ MessagesApplied(message_index, call.payload)
            /\ MediaApplied(media_index, call.payload)
       ELSE /\ call.fault # 0
            /\ DB = call.before

\* C2 witness: a batch of a message and a media item failed after the
\* message statement had changed the working pages.
C2_Witness ==
  /\ call.op = "upsert" /\ ~call.ok
  /\ Len(call.payload.messages) >= 1 /\ Len(call.payload.media_items) >= 1
  /\ call.fault > Len(call.payload.messages)
  /\ Working(call.before, call.payload, call.fault - 1).messages # call.before.messages

\* C3: applying the batch of a successful upsert a second time leaves both
\* tables, row for row, as they are after the first time, and every search
\* returns what it returned after the first.
C3_Idempotent ==
  (call.op = "upsert" /\ call.ok)
    => LET again == insert_index_records(DB, call.payload, 0)
       IN /\ again.ok
          /\ again.db = DB
          /\ \A query \in Queries : \A mention_target \in MentionTargets :
               query_index_records(again.db.messages, query, mention_target, 0)
                 = query_index_records(message_index, query, mention_target, 0)

\* C3 witness: the first application changed a table that holds several
\* rows, and the batch does not write the row stored last.
C3_Witness ==
  /\ call.op = "upsert" /\ call.ok
  /\ Len(call.payload.messages) >= 1
  /\ message_index # call.before.messages
  /\ Len(message_index) >= 2
  /\ \A i \in 1..Len(call.payload.messages) :
       ~SameKey(message_index[Len(message_index)], call.payload.messages[i])

\* A message table that holds the last committed write of every key.
CommittedTable == ExecuteMessages(<<>>, SeqOf(committed.messages))

\* C4: a read that runs after upserts have returned Ok returns the values of
\* the last committed write of every key it returns, and leaves out no
\* committed record that it selects: a search returns committed records
\* only and, without a limit, those that a table of the committed records
\* yields; load_room_index returns the committed records of the room;
\* compute_smart_collections counts the committed records.
C4_ReadAfterWrite ==
  /\ (call.op = "query" /\ call.ok)
       => /\ Range(call.records) \subseteq committed.messages
          /\ call.query.limit = None
               => Range(call.records)
                    = Range(query_index_records(CommittedTable, call.query,
                                                call.mention_target, 0).records)
  /\ (call.op = "load" /\ call.ok)
       => /\ Range(call.records) = {m \in committed.messages : m.room_id = call.room_id}
          /\ Range(call.media) = {m \in committed.media : m.room_id = call.room_id}
  /\ (call.op = "collections" /\ call.ok)
       => call.collections = compute_smart_collections(CommittedTable, call.user_id, 0)

\* C4 witness: a room is loaded after its message was overwritten by a
\* later upsert and a media item was stored for it.
C4_Witness ==
  /\ call.op = "load" /\ call.ok
  /\ call.media # <<>>
  /\ \E i \in 1..Len(call.records) : call.records[i].timestamp = 2
  /\ Len(message_index) >= 2

\* C20: the media table holds one row per id, its fields those of the last
\* successful write of the id, and load_room_index lists an item under the
\* room of that write only.
C20_MediaLastWriteWins ==
  /\ \A i, j \in 1..Len(media_index) :
       media_index[i].id = media_index[j].id => i = j
  /\ {MediaFromRow(media_index[i]) : i \in 1..Len(media_index)}
       = {Some(item) : item \in committed.media}
  /\ (call.op = "load" /\ call.ok)
       => Range(call.media) = {item \in committed.media : item.room_id = call.room_id}

\* C20 witness: an item stored under room r1 was written again under room
\* r2 with other values, and the one row of its id now holds room r2.
C20_Witness ==
  /\ call.op = "upsert" /\ call.ok
  /\ Len(call.before.media) = 1
  /\ call.before.media[1].id = "m1" /\ call.before.media[1].room_id = "r1"
  /\ Len(call.payload.media_items) = 1
  /\ call.payload.media_items[1].room_id = "r2"
  /\ Len(media_index) = 1
  /\ MediaFromRow(media_index[1]) = Some(call.payload.media_items[1])

\* The keys of the stored messages and the ids of the stored media items.
StoredKeys(table) == {<<table[i].room_id, table[i].event_id>> : i \in 1..Len(table)}

StoredIds(table) == {table[i].id : i \in 1..Len(table)}

\* C21: no step of any command removes a stored message key or media id;
\* the sets of stored keys and ids only grow, also when a batch fails.
C21_NeverDeleted ==
  [][/\ StoredKeys(message_index) \subseteq StoredKeys(message_index')
     /\ StoredIds(media_index) \subseteq StoredIds(media_index')]_vars

\* C21 witness: a batch of two statements failed at its second, over a store
\* that held a message and a media item, and both are still stored.
C21_Witness ==
  /\ call.op = "upsert" /\ ~call.ok /\ call.fault = 2
  /\ Len(call.before.messages) = 1 /\ Len(call.before.media) = 1
  /\ StoredKeys(message_index) = StoredKeys(call.before.messages)
  /\ StoredIds(media_index) = {"m1"}

\* C22: init_index_db, run at the start of every command, leaves the schema
\* in place and every stored row as it was: run once more in any state it
\* changes nothing, and the tables a command works on are the stored ones.
C22_EnsureSchema ==
  /\ CreateTableIfNotExists(schema, message_index) = message_index
  /\ CreateTableIfNotExists(schema, media_index) = media_index
  /\ call.op # "idle" => schema
  /\ call.op \in {"query", "load", "collections"}
       => call.before = [messages |-> message_index, media |-> media_index]
  /\ (call.op = "upsert" /\ ~call.ok)
       => call.before = [messages |-> message_index, media |-> media_index]

\* C22 witness: a room listing, which ran init_index_db on a database that
\* had its tables and held a message and a media item, sees both.
C22_Witness ==
  /\ call.op = "load" /\ call.ok
  /\ Len(message_index) >= 1 /\ Len(media_index) >= 1
  /\ call.before = [messages |-> message_index, media |-> media_index]
  /\ Len(call.records) + Len(call.media) >= 2

\* The rows of a table that are not of the room.
RowsOutside(table, room_id) == SelectSeq(table, LAMBDA row : row.room_id # room_id)

\* C23: a successful upsert stores every record of the batch under the
\* room_id of the call, and creates or changes no row of another room.
C23_BatchRoom ==
  (call.op = "upsert" /\ call.ok)
    => /\ \A i \in 1..Len(call.payload.messages) :
            \E j \in 1..Len(message_index) :
              /\ message_index[j].event_id = call.payload.messages[i].event_id
              /\ message_index[j].room_id = call.payload.room_id
       /\ \A i \in 1..Len(call.payload.media_items) :
            \E j \in 1..Len(media_index) :
              /\ media_index[j].id = call.payload.media_items[i].id
              /\ media_index[j].room_id = call.payload.room_id
       /\ RowsOutside(message_index, call.payload.room_id)
            = RowsOutside(call.before.messages, call.payload.room_id)
       /\ RowsOutside(media_index, call.payload.room_id)
            = RowsOutside(call.before.media, call.payload.room_id)

\* C24: an upsert whose two lists are empty returns success and leaves both
\* tables as they were.
C24_EmptyBatch ==
  (call.op = "upsert" /\ call.payload.messages = <<>>
     /\ call.payload.media_items = <<>>)
    => /\ call.ok
       /\ message_index = call.before.messages
       /\ media_index = call.before.media

\* C24 witness: an empty batch returned success over a store that holds a
\* message and a media item, while storage would have failed a transaction.
C24_Witness ==
  /\ call.op = "upsert" /\ call.ok /\ call.fault = 1
  /\ call.payload.messages = <<>> /\ call.payload.media_items = <<>>
  /\ Len(message_index) >= 1 /\ Len(media_index) >= 1

\* The keys of the messages and the ids of the media items of a payload.
BatchKeys(payload) ==
  {<<payload.messages[i].room_id, payload.messages[i].event_id>> :
     i \in 1..Len(payload.messages)}

BatchIds(payload) == {payload.media_items[i].id : i \in 1..Len(payload.media_items)}

\* The rows of a message table whose key is not in the set, in their order.
RowsNotOfKeys(table, keys) ==
  SelectSeq(table, LAMBDA row : <<row.room_id, row.event_id>> \notin keys)

RowsNotOfIds(table, ids) == SelectSeq(table, LAMBDA row : row.id \notin ids)

C27_ListOrder ==
  (call.op = "upsert" /\ call.fault = 0)
    => /\ call.ok
       /\ \A i, j \in 1..Len(call.payload.messages) :
            (i < j /\ SameKey(call.payload.messages[i], call.payload.messages[j])
               /\ LastOfKey(call.payload.messages, j))
              => LET rows == RowsOfKey(message_index, call.payload.messages[j])
                 IN Len(rows) = 1 /\ RowHolds(rows[1], call.payload.messages[j])
       /\ \A i, j \in 1..Len(call.payload.media_items) :
            (i < j /\ call.payload.media_items[i].id = call.payload.media_items[j].id
               /\ LastOfId(call.payload.media_items, j))
              => LET rows == SelectSeq(media_index,
                                       LAMBDA row : row.id = call.payload.media_items[j].id)
                 IN /\ Len(rows) = 1
                    /\ MediaFromRow(rows[1]) = Some(call.payload.media_items[j])

\* C27 witness: one batch held two messages of one key with different
\* values, over a store without that key, and the row holds the second.
C27_Witness ==
  /\ call.op = "upsert" /\ call.ok
  /\ Len(call.payload.messages) = 2
  /\ SameKey(call.payload.messages[1], call.payload.messages[2])
  /\ call.payload.messages[1] # call.payload.messages[2]
  /\ call.before.messages = <<>>
  /\ Len(message_index) = 1
  /\ RowHolds(message_index[1], call.payload.messages[2])

(***************************************************************************)
(* Concurrent upserts: every command runs on a blocking worker thread with *)
(* a connection of its own to the one database file. SQLite (rollback      *)
(* journal, the default) lets one connection at a time hold the RESERVED   *)
(* lock that its first write takes; a transaction's writes stay in the     *)
(* pages of its connection until COMMIT writes them to the file.           *)
(***************************************************************************)
MaxRuns == 1

Workers == {"w1", "w2"}

EmptyDB == [messages |-> <<>>, media |-> <<>>]

IdleConn ==
  [pc |-> "idle", payload |-> [room_id |-> "r1", messages |-> <<>>, media_items |-> <<>>],
   done |-> 0, working |-> EmptyDB, ok |-> TRUE, runs |-> 0, returned |-> <<>>]

\* Mutant of ReservedFree: no write lock, two transactions write at once.
ReservedAlwaysFree(w) == TRUE

\* No other connection holds the RESERVED lock: none is in a transaction
\* that has executed a statement.
ReservedFree(w) ==
  \A o \in Workers \ {w} : ~(conn[o].pc = "tx" /\ conn[o].done >= 1)

\* The k-th tx.execute of a payload on the pages of its transaction.
ExecuteStatement(working, payload, k) ==
  IF k <= Len(payload.messages)
  THEN [working EXCEPT !.messages = UpsertMessage(@, payload.messages[k])]
  ELSE [working EXCEPT
          !.media = UpsertMedia(@, payload.media_items[k - Len(payload.messages)])]

\* upsert_index_records starts on a worker: Connection::open, init_index_db,
\* then insert_index_records up to conn.transaction() (BEGIN takes no lock),
\* or its return of Ok(()) for a payload without records.
WorkerBegin(w, payload) ==
  /\ conn[w].pc = "idle" /\ conn[w].runs < MaxRuns
  /\ init_index_db
  /\ IF Statements(payload) = 0
     THEN /\ conn' = [conn EXCEPT ![w].pc = "done", ![w].payload = payload, ![w].ok = TRUE]
          /\ commit_log' = Append(commit_log, [worker |-> w, payload |-> payload])
     ELSE /\ conn' = [conn EXCEPT ![w].pc = "tx", ![w].payload = payload,
                                  ![w].done = 0, ![w].working = EmptyDB]
          /\ UNCHANGED commit_log
  /\ UNCHANGED <<message_index, media_index, call, committed,
                 accounts, task, deploy>>

\* One tx.execute succeeds: the first one takes the RESERVED lock and reads
\* the file, every one changes the pages of the transaction only.
WorkerExecute(w) ==
  /\ conn[w].pc = "tx" /\ conn[w].done < Statements(conn[w].payload)
  /\ ReservedFree(w)
  /\ conn' = [conn EXCEPT
       ![w].working = ExecuteStatement(IF conn[w].done = 0 THEN DB ELSE @,
                                       conn[w].payload, conn[w].done + 1),
       ![w].done = @ + 1]
  /\ UNCHANGED <<message_index, media_index, schema, call, committed, commit_log,
                 accounts, task, deploy>>

\* The first tx.execute finds the RESERVED lock held until the busy timeout
\* runs out: SQLITE_BUSY, the function returns the error.
WorkerBusy(w) ==
  /\ conn[w].pc = "tx" /\ conn[w].done = 0
  /\ ~ReservedFree(w)
  /\ conn' = [conn EXCEPT ![w].pc = "done", ![w].ok = FALSE]
  /\ UNCHANGED <<message_index, media_index, schema, call, committed, commit_log,
                 accounts, task, deploy>>

\* A tx.execute or tx.commit fails on the storage: the function returns the
\* error and the dropped transaction rolls back.
WorkerFail(w) ==
  /\ conn[w].pc = "tx"
  /\ message_index' = Rollback(DB, conn[w].working).messages
  /\ media_index' = Rollback(DB, conn[w].working).media
  /\ conn' = [conn EXCEPT ![w].pc = "done", ![w].ok = FALSE]
  /\ UNCHANGED <<schema, call, committed, commit_log,
                 accounts, task, deploy>>

\* tx.commit() after the last statement: the pages are written to the file.
WorkerCommit(w) ==
  /\ conn[w].pc = "tx" /\ conn[w].done = Statements(conn[w].payload)
  /\ message_index' = Commit(DB, conn[w].working).messages
  /\ media_index' = Commit(DB, conn[w].working).media
  /\ conn' = [conn EXCEPT ![w].pc = "done", ![w].ok = TRUE]
  /\ commit_log' = Append(commit_log, [worker |-> w, payload |-> conn[w].payload])
  /\ UNCHANGED <<schema, call, committed,
                 accounts, task, deploy>>

\* The command returns its Result to the caller.
WorkerReturn(w) ==
  /\ conn[w].pc = "done"
  /\ conn' = [conn EXCEPT
       ![w].pc = "idle", ![w].runs = @ + 1,
       ![w].returned = IF conn[w].ok THEN Append(@, conn[w].payload) ELSE @]
  /\ UNCHANGED <<message_index, media_index, schema, call, committed, commit_log,
                 accounts, task, deploy>>

InitConc ==
  /\ message_index = <<>>
  /\ media_index = <<>>
  /\ schema = FALSE
  /\ call = IdleCall
  /\ committed = [messages |-> {}, media |-> {}]
  /\ conn = [w \in Workers |-> IdleConn]
  /\ commit_log = <<>>
  /\ InitOutsideIndex

\* Batches for one room whose keys overlap: two that write the same two
\* keys with different values, one that writes one of the keys and a media
\* item, one without records.
ConcPayloads ==
  {[room_id |-> "r1",
    messages |-> <<Message("r1", "e1", ContentA), Message("r1", "e2", ContentA)>>,
    media_items |-> <<>>],
   [room_id |-> "r1",
    messages |-> <<Message("r1", "e2", ContentB), Message("r1", "e1", ContentB)>>,
    media_items |-> <<>>],
   [room_id |-> "r1",
    messages |-> <<Message("r1", "e2", ContentB)>>,
    media_items |-> SeqOf({m \in MediaItems : m.room_id = "r1"})],
   [room_id |-> "r1", messages |-> <<>>, media_items |-> <<>>]}

NextConc ==
  \E w \in Workers :
    \/ \E payload \in ConcPayloads : WorkerBegin(w, payload)
    \/ WorkerExecute(w)
    \/ WorkerBusy(w)
    \/ WorkerFail(w)
    \/ WorkerCommit(w)
    \/ WorkerReturn(w)

SpecConc == InitConc /\ [][NextConc]_vars

RECURSIVE Replay(_, _)
\* The batches of a log applied one after the other, each as a whole.
Replay(db, log) ==
  IF log = <<>> THEN db
  ELSE Replay(insert_index_records(db, Head(log).payload, 0).db, Tail(log))

\* The payloads for which a worker's commands have returned or are about
\* to return Ok, in order.
Succeeded(w) ==
  conn[w].returned
    \o (IF conn[w].pc = "done" /\ conn[w].ok THEN <<conn[w].payload>> ELSE <<>>)

\* The payloads of a worker in the commit log, in order.
CommittedBy(w) ==
  LET own == SelectSeq(commit_log, LAMBDA e : e.worker = w)
  IN [i \in 1..Len(own) |-> own[i].payload]

\* C5: with upserts running concurrently and unserialized, in every
\* interleaving the store equals the batches that returned Ok applied whole
\* and one after the other in the order of their commits, a batch that
\* returned an error having no effect and none that returned Ok being lost.
C5_Serializable ==
  /\ DB = Replay(EmptyDB, commit_log)
  /\ \A w \in Workers : Succeeded(w) = CommittedBy(w)

\* C5 witness: two batches that write the same keys are in their
\* transactions at the same time, one between its two statements and
\* holding the write lock, the other before its first statement.
C5_Witness ==
  \E w, o \in Workers :
    /\ w # o
    /\ conn[w].pc = "tx" /\ conn[w].done = 1 /\ Statements(conn[w].payload) = 2
    /\ conn[o].pc = "tx" /\ conn[o].done = 0 /\ Statements(conn[o].payload) = 2
    /\ \E i, j \in 1..2 :
         /\ i <= Len(conn[w].payload.messages) /\ j <= Len(conn[o].payload.messages)
         /\ SameKey(conn[w].payload.messages[i], conn[o].payload.messages[j])

(***************************************************************************)
(* The list columns written and read back: a store that holds one ingested *)
(* message whose lists are drawn from all short lists of short strings.    *)
(***************************************************************************)
MaxStrLen == 2

MaxListLen == 2

\* A letter, the two characters JSON escapes with a backslash, and strings
\* of the characters that structure a JSON array or end a line.
CodecChars == {"a", "\"", "\\"}

CodecStrings ==
  SeqsUpTo(CodecChars, MaxStrLen)
    \cup {<<",">>, <<"]">>, <<"[">>, <<" ">>, <<"\n">>}

CodecLists == SeqsUpTo(CodecStrings, MaxListLen)

\* A message with the list in one of its four list fields, the other three
\* holding lists that differ from field to field.
CodecMessage(list, field) ==
  [event_id |-> "e1", room_id |-> "r1", sender |-> SenderA, timestamp |-> 1,
   body |-> None,
   tokens      |-> IF field = 1 THEN list ELSE <<<<"a">>>>,
   tags        |-> IF field = 2 THEN list ELSE <<<<"a">>, <<"a">>>>,
   reactions   |-> IF field = 3 THEN list ELSE <<>>,
   has_media   |-> FALSE,
   media_types |-> IF field = 4 THEN list ELSE <<<<"a", "a">>>>]

CodecPayloads ==
  {[room_id |-> "r1", messages |-> <<CodecMessage(list, field)>>, media_items |-> <<>>] :
     list \in CodecLists, field \in 1..4}

\* The store after the first upsert_index_records of a session.
InitCodec ==
  \E payload \in CodecPayloads :
    /\ message_index = insert_index_records(EmptyDB, payload, 0).db.messages
    /\ media_index = <<>>
    /\ schema = TRUE
    /\ call = IdleCall
    /\ committed = Written([messages |-> {}, media |-> {}], payload)
    /\ conn = NoConn
    /\ commit_log = <<>>
    /\ InitOutsideIndex

NextCodec ==
  \/ QueryLocalIndex(NoQuery, None, 0)
  \/ \E room_id \in Rooms : LoadRoomIndex(room_id, 0)
  \/ Return

SpecCodec == InitCodec /\ [][NextCodec]_vars

\* The record carries the four lists of m: the same strings in the same
\* order, each as often as written.
SameLists(record, m) ==
  /\ record.tokens = m.tokens
  /\ record.tags = m.tags
  /\ record.reactions = m.reactions
  /\ record.media_types = m.media_types

\* C6: for every message written by an upsert, search and load_room_index
\* return its tokens, tags, reactions and media_types as the sequences that
\* were written, the empty list included.
C6_ListRoundTrip ==
  (call.op \in {"query", "load"} /\ call.ok)
    => \A m \in committed.messages :
         (call.op = "load" => call.room_id = m.room_id)
           => \E i \in 1..Len(call.records) :
                SameKey(call.records[i], m) /\ SameLists(call.records[i], m)

\* C6 witness: a search returned tags that hold twice the string of a
\* backslash and a quote.
C6_Witness ==
  /\ call.op = "query" /\ call.ok
  /\ Len(call.records) = 1
  /\ call.records[1].tags = <<<<"\\", "\"">>, <<"\\", "\"">>>>
  /\ call.records[1].tokens = <<<<"a">>>>

(***************************************************************************)
(* Reads over a damaged store and over failing storage: the list columns   *)
(* are declared TEXT without NOT NULL, and search_index.sqlite3 is a file  *)
(* other programs can write.                                               *)
(***************************************************************************)
MaxTamper == 1

ListColumns == {"tokens_json", "tags_json", "reactions_json", "media_types_json"}

\* What a list column can hold that is no encoded list: NULL, the empty
\* text, a truncated array.
TamperValues == {None, Some(<<>>), Some(<<"[">>)}

\* The column holds no JSON array of strings.
Undecodable(column) == column = None \/ ~from_str(Unwrap(column)).ok

TamperedColumns(table) ==
  {ic \in (1..Len(table)) \X ListColumns : Undecodable(table[ic[1]][ic[2]])}

\* A write to the file from outside the commands: one list column of one
\* stored row is replaced.
ExternalWrite(i, column, value) ==
  /\ call.op = "idle"
  /\ i \in 1..Len(message_index)
  /\ message_index' = [message_index EXCEPT ![i][column] = value]
  /\ Cardinality(TamperedColumns(message_index')) <= MaxTamper
  /\ UNCHANGED <<media_index, schema, call, committed, conn, commit_log,
                 accounts, task, deploy>>

FaultKeys == {<<"r1", "e1">>, <<"r2", "e1">>}

FaultPayloads ==
  {[room_id |-> k[1], messages |-> <<Message(k[1], k[2], c)>>, media_items |-> <<>>] :
     k \in FaultKeys, c \in {ContentA, ContentB}}

FaultQueries == {NoQuery, [NoQuery EXCEPT !.room_id = Some("r1")]}

\* The failures a read can meet: -1 prepare, k the k-th step (for the
\* collections the k-th COUNT), 0 none.
ReadFaults == {-1, 0, 1, 2}

NextFault ==
  \/ \E payload \in FaultPayloads : UpsertIndexRecords(payload, 0)
  \/ \E i \in 1..2 : \E column \in ListColumns : \E value \in TamperValues :
       ExternalWrite(i, column, value)
  \/ \E query \in FaultQueries : \E fault \in ReadFaults :
       QueryLocalIndex(query, None, fault)
  \/ \E room_id \in Rooms : \E fault \in ReadFaults : LoadRoomIndex(room_id, fault)
  \/ \E user_id \in UserIds : \E fault \in ReadFaults :
       GetSmartCollections(user_id, fault)
  \/ Return

SpecFault == Init /\ [][NextFault]_vars

\* The rows the statement of the running read selects, in its order.
MatchingRows ==
  IF call.op = "query"
  THEN QueryRows(call.before.messages, call.query, call.mention_target)
  ELSE RoomMessageRows(call.before.messages, call.room_id)

DegradedList(column) ==
  IF Undecodable(column) THEN <<>> ELSE parse_vec(Unwrap(column))

\* The record of a row with every undecodable list as the empty list.
DegradedRecord(row) ==
  [event_id    |-> row.event_id,
   room_id     |-> row.room_id,
   sender      |-> row.sender,
   timestamp   |-> row.timestamp,
   body        |-> row.body,
   tokens      |-> DegradedList(row.tokens_json),
   tags        |-> DegradedList(row.tags_json),
   reactions   |-> DegradedList(row.reactions_json),
   has_media   |-> row.has_media # 0,
   media_types |-> DegradedList(row.media_types_json)]

HasUndecodable(row) == \E column \in ListColumns : Undecodable(row[column])

\* C7: when storage does not fail, a search or load_room_index over a store
\* with a row whose list column is corrupt or missing succeeds and returns
\* that row, the affected list empty and every other field as stored.
C7_DecodeDegradation ==
  (call.op \in {"query", "load"} /\ call.fault = 0)
    => /\ call.ok
       /\ \A i \in 1..Len(MatchingRows) :
            HasUndecodable(MatchingRows[i])
              => \E j \in 1..Len(call.records) :
                   call.records[j] = DegradedRecord(MatchingRows[i])

\* Reading a selected row failed: a step of the statement failed, or a
\* column of a row could not be read.
RowReadFailed ==
  \/ call.fault >= 1 /\ call.fault <= Len(MatchingRows)
  \/ /\ call.fault = 0
     /\ \E i \in 1..Len(MatchingRows) : MessageFromRow(MatchingRows[i]) = None

\* A COUNT(*) of compute_smart_collections failed.
CountFailed ==
  \/ call.fault = 1
  \/ call.fault = 2 /\ normalized_localpart(call.user_id) # <<>>

\* C8: a search or load_room_index in which reading a selected row fails,
\* and a get_smart_collections in which a count fails, returns an error.
C8_NoPartialSuccess ==
  /\ (call.op \in {"query", "load"} /\ RowReadFailed) => ~call.ok
  /\ (call.op = "collections" /\ CountFailed) => ~call.ok

(***************************************************************************)
(* Searches: a store of up to three messages and the queries over the      *)
(* structured filters, each filter absent or present with each value.      *)
(***************************************************************************)
MaxTs == 3

\* Contents in which sender, timestamp and has_media vary apart from each
\* other, two of them with the same timestamp.
QueryContents ==
  {[ContentA EXCEPT !.timestamp = 1],
   [ContentB EXCEPT !.timestamp = 2],
   [ContentA EXCEPT !.timestamp = 2, !.has_media = TRUE,
                    !.media_types = <<<<"i", "m", "g">>>>],
   [ContentB EXCEPT !.timestamp = MaxTs, !.has_media = FALSE, !.media_types = <<>>]}

QueryPayloads ==
  {[room_id |-> k[1], messages |-> <<Message(k[1], k[2], c)>>, media_items |-> <<>>] :
     k \in MessageKeys, c \in QueryContents}

Absent(S) == {None} \cup {Some(v) : v \in S}

SenderLists == {<<>>, <<SenderA>>, <<SenderB>>, <<SenderA, SenderB>>}

\* The queries that use only room_id, senders, from_ts, to_ts and has_media.
StructuredQueries ==
  {[NoQuery EXCEPT !.room_id = room_id, !.senders = senders, !.from_ts = from_ts,
                   !.to_ts = to_ts, !.has_media = has_media] :
     room_id \in Absent(Rooms), senders \in Absent(SenderLists),
     from_ts \in Absent(1..MaxTs), to_ts \in Absent(1..MaxTs),
     has_media \in Absent(BOOLEAN)}

\* Queries with a term, media types or a limit, some with filters as well.
OtherQueries ==
  {[q EXCEPT !.limit = limit] :
     q \in {NoQuery,
            [NoQuery EXCEPT !.term = Some(<<"A">>)],
            [NoQuery EXCEPT !.media_types = Some(<<<<"i", "m", "g">>>>)],
            [NoQuery EXCEPT !.room_id = Some("r1"), !.from_ts = Some(2)]},
     limit \in Absent({0, 1, 2})}

NextQuery ==
  \/ \E payload \in QueryPayloads : UpsertIndexRecords(payload, 0)
  \/ \E query \in StructuredQueries : QueryLocalIndex(query, None, 0)
  \/ \E query \in OtherQueries : \E mention_target \in MentionTargets :
       QueryLocalIndex(query, mention_target, 0)
  \/ Return

SpecQuery == Init /\ [][NextQuery]_vars

\* C9: the list a search returns is non-increasing in timestamp, whatever
\* the store, the filters, the mention target and the limit.
C9_TimestampOrder ==
  (call.op = "query" /\ call.ok)
    => \A i \in 1..(Len(call.records) - 1) :
         call.records[i].timestamp >= call.records[i + 1].timestamp

\* C9 witness: a search returned three records, not all of one timestamp,
\* from a store whose rows were inserted oldest first.
C9_Witness ==
  /\ call.op = "query" /\ call.ok
  /\ Len(call.records) = 3
  /\ call.records[1].timestamp > call.records[3].timestamp
  /\ Len(call.before.messages) = 3
  /\ call.before.messages[1].timestamp < call.before.messages[2].timestamp
  /\ call.before.messages[2].timestamp < call.before.messages[3].timestamp

StructuredOnly(query) ==
  query.term = None /\ query.media_types = None /\ query.limit = None

\* The filter predicate as the interface states it, on a written record.
Satisfies(m, query) ==
  /\ query.room_id = None \/ m.room_id = Unwrap(query.room_id)
  /\ \/ query.senders = None
     \/ Unwrap(query.senders) = <<>>
     \/ m.sender \in Range(Unwrap(query.senders))
  /\ query.from_ts = None \/ m.timestamp >= Unwrap(query.from_ts)
  /\ query.to_ts = None \/ m.timestamp <= Unwrap(query.to_ts)
  /\ query.has_media # Some(TRUE) \/ m.has_media

\* C10: a search that uses only the structured filters returns exactly the
\* stored messages that satisfy every present filter, each once; both
\* timestamp bounds are inclusive, and an absent filter, an empty sender
\* list and has_media = false exclude nothing.
C10_StructuredFilters ==
  (call.op = "query" /\ call.ok /\ StructuredOnly(call.query)
     /\ call.mention_target = None)
    => /\ Range(call.records) = {m \in committed.messages : Satisfies(m, call.query)}
       /\ Len(call.records) = Cardinality(Range(call.records))

\* C10 witness: a search with all five filters present returned one of three
\* stored messages; the second fails the sender filter only, the third the
\* room filter only.
C10_Witness ==
  /\ call.op = "query" /\ call.ok
  /\ call.query = [NoQuery EXCEPT !.room_id = Some("r1"),
                                  !.senders = Some(<<SenderA>>),
                                  !.from_ts = Some(2), !.to_ts = Some(2),
                                  !.has_media = Some(TRUE)]
  /\ call.mention_target = None
  /\ Len(call.records) = 1
  /\ call.records[1].timestamp = 2
  /\ Cardinality(committed.messages) = 3
  /\ \E m \in committed.messages :
       m.room_id = "r1" /\ m.sender = SenderB /\ m.timestamp = 2 /\ m.has_media
  /\ \E m \in committed.messages :
       m.room_id = "r2" /\ m.sender = SenderA /\ m.timestamp = 2 /\ m.has_media

(***************************************************************************)
(* Searches by text: the term, the mention target, the media types and the *)
(* limit, over stores of up to three messages.                             *)
(***************************************************************************)
SearchContents ==
  {[sender |-> SenderA, timestamp |-> 1, body |-> Some(<<"H", "i", " ", "a", "l">>),
    tokens |-> <<<<"h", "i">>, <<"a", "l">>>>, tags |-> <<>>, reactions |-> <<>>,
    has_media |-> FALSE, media_types |-> <<>>],
   [sender |-> SenderB, timestamp |-> 2, body |-> None,
    tokens |-> <<<<"a", "l", "b">>>>, tags |-> <<<<"i">>>>,
    reactions |-> <<<<"STAR">>>>,
    has_media |-> TRUE, media_types |-> <<<<"i", "m", "g">>>>],
   [sender |-> SenderA, timestamp |-> 2, body |-> Some(<<"x">>),
    tokens |-> <<<<"A", "l">>>>, tags |-> <<<<"a", "b">>, <<"b">>>>, reactions |-> <<>>,
    has_media |-> TRUE, media_types |-> <<<<"i", "m", "g">>, <<"v", "i", "d">>>>],
   [sender |-> SenderB, timestamp |-> 3, body |-> Some(<<"E_ACUTE">>),
    tokens |-> <<>>, tags |-> <<>>, reactions |-> <<>>,
    has_media |-> TRUE, media_types |-> <<<<"v", "i", "d">>>>]}

SearchPayloads ==
  {[room_id |-> k[1], messages |-> <<Message(k[1], k[2], c)>>, media_items |-> <<>>] :
     k \in MessageKeys, c \in SearchContents}

\* Terms: blank, framed by blanks and in capitals, a letter, a letter inside
\* a token only, an accented letter, the LIKE wildcards, a JSON bracket.
Terms ==
  {<<" ", " ">>, <<" ", "H", "I", " ">>, <<"b">>, <<"l">>, <<"e_acute">>,
   <<"%">>, <<"_">>, <<"[">>}

TermQueries == {[NoQuery EXCEPT !.term = Some(term)] : term \in Terms}

\* needle occurs in hay as a run of consecutive characters.
IsSubstring(needle, hay) ==
  \E i \in 0..(Len(hay) - Len(needle)) : SubSeq(hay, i + 1, i + Len(needle)) = needle

\* needle occurs in hay when case is disregarded.
ContainsFolded(hay, needle) == IsSubstring(to_lowercase(needle), to_lowercase(hay))

\* The term, trimmed, is contained in one of the five fields of the message.
TermMatches(m, term) ==
  LET t == Trim(term)
  IN \/ IsSome(m.body) /\ ContainsFolded(Unwrap(m.body), t)
     \/ ContainsFolded(m.sender, t)
     \/ \E i \in 1..Len(m.tags) : ContainsFolded(m.tags[i], t)
     \/ \E i \in 1..Len(m.reactions) : ContainsFolded(m.reactions[i], t)
     \/ ContainsFolded(SearchTokens(m.tokens), t)

\* The query uses the term only.
TermOnly(query) == [query EXCEPT !.term = None] = NoQuery

\* C11: a search by a term alone returns exactly the stored messages one of
\* whose five fields (body, sender, a tag, a reaction, the search surface)
\* contains the trimmed term without regard to case; a blank term returns
\* every message.
C11_TermSubstring ==
  (call.op = "query" /\ call.ok /\ IsSome(call.query.term)
     /\ TermOnly(call.query) /\ call.mention_target = None)
    => Range(call.records) =
         {m \in committed.messages :
            Trim(Unwrap(call.query.term)) = <<>> \/ TermMatches(m, Unwrap(call.query.term))}

\* Mention targets: a token, the same in capitals, the start of a token, two
\* tokens with the blank between them, the LIKE wildcards, the empty text.
SearchMentionTargets ==
  {<<"a", "l">>, <<"A", "L">>, <<"a">>, <<"h", "i", " ", "a", "l">>,
   <<"_", "l">>, <<"%">>, <<>>}

\* C12: a search by a mention target alone returns exactly the stored
\* messages one of whose tokens equals the lowercased target; a target that
\* is part of a token, spans two tokens or holds a pattern wildcard selects
\* by that rule as well.
C12_MentionWholeToken ==
  (call.op = "query" /\ call.ok /\ call.query = NoQuery
     /\ IsSome(call.mention_target))
    => Range(call.records) =
         {m \in committed.messages :
            \E i \in 1..Len(m.tokens) :
              m.tokens[i] = to_lowercase(Unwrap(call.mention_target))}

\* Requested media types: one type, two types in both orders, a type in
\* capitals, the start of a type, the LIKE wildcards.
MediaRequests ==
  {<<<<"i", "m", "g">>>>,
   <<<<"i", "m", "g">>, <<"v", "i", "d">>>>,
   <<<<"v", "i", "d">>, <<"i", "m", "g">>>>,
   <<<<"I", "m", "g">>>>,
   <<<<"i", "m">>>>,
   <<<<"i", "_", "g">>>>,
   <<<<"%">>>>}

MediaQueries ==
  {[NoQuery EXCEPT !.media_types = Some(request)] : request \in MediaRequests}

\* The query uses the media types only.
MediaTypesOnly(query) == [query EXCEPT !.media_types = None] = NoQuery

\* C13: a search by a non-empty list of media types alone returns exactly
\* the stored messages whose media_types list has every requested type as
\* an element.
C13_MediaTypesAll ==
  (call.op = "query" /\ call.ok /\ IsSome(call.query.media_types)
     /\ Unwrap(call.query.media_types) # <<>>
     /\ MediaTypesOnly(call.query) /\ call.mention_target = None)
    => Range(call.records) =
         {m \in committed.messages :
            Range(Unwrap(call.query.media_types)) \subseteq Range(m.media_types)}

MaxLimit == 3

\* Queries with a limit: below, at and above the number of stored messages,
\* alone and after a filter.
LimitQueries ==
  {[q EXCEPT !.limit = Some(n)] :
     q \in {NoQuery,
            [NoQuery EXCEPT !.has_media = Some(TRUE)],
            [NoQuery EXCEPT !.room_id = Some("r1"), !.term = Some(<<"b">>)]},
     n \in 0..MaxLimit}

\* The records the running search returns when its limit is taken away.
Unlimited ==
  query_index_records(call.before.messages, [call.query EXCEPT !.limit = None],
                      call.mention_target, 0).records

Min(a, b) == IF a <= b THEN a ELSE b

\* C14: a search with limit n whose unlimited form matches m messages
\* returns min(n, m) records, all of them among the matching ones, and none
\* older than a matching message that was left out.
C14_LimitLast ==
  (call.op = "query" /\ call.ok /\ IsSome(call.query.limit))
    => /\ Len(call.records) = Min(Unwrap(call.query.limit), Len(Unlimited))
       /\ Range(call.records) \subseteq Range(Unlimited)
       /\ \A r \in Range(call.records) :
            \A u \in Range(Unlimited) \ Range(call.records) :
              r.timestamp >= u.timestamp

\* C14 witness: limit 1 after the has_media filter over three stored
\* messages, the oldest inserted first and failing the filter; two match and
\* the newer one is returned.
C14_Witness ==
  /\ call.op = "query" /\ call.ok
  /\ call.query = [NoQuery EXCEPT !.has_media = Some(TRUE), !.limit = Some(1)]
  /\ Len(call.before.messages) = 3
  /\ call.before.messages[1].has_media = 0
  /\ call.before.messages[2].timestamp < call.before.messages[3].timestamp
  /\ Len(Unlimited) = 2
  /\ Len(call.records) = 1
  /\ call.records[1].timestamp = 3

NextSearch ==
  \/ \E payload \in SearchPayloads : UpsertIndexRecords(payload, 0)
  \/ \E query \in TermQueries : QueryLocalIndex(query, None, 0)
  \/ \E target \in SearchMentionTargets : QueryLocalIndex(NoQuery, Some(target), 0)
  \/ \E query \in MediaQueries : QueryLocalIndex(query, None, 0)
  \/ \E query \in LimitQueries : \E mention_target \in MentionTargets :
       QueryLocalIndex(query, mention_target, 0)
  \/ Return

SpecSearch == Init /\ [][NextSearch]_vars

(***************************************************************************)
(* The room listing: messages and media items of two rooms, written one    *)
(* record at a time.                                                       *)
(***************************************************************************)
RoomMessages == Messages

\* Three media ids, each in either room and with either timestamp.
RoomMediaItems ==
  {[id |-> id, event_id |-> "e1", room_id |-> room_id, media_type |-> <<"i", "m", "g">>,
    mxc_url |-> Some(<<"m", "x", "c">>), thumbnail_mxc |-> None,
    file_name |-> None, size |-> Some(1), mimetype |-> None,
    sender |-> SenderA, timestamp |-> timestamp, body |-> None, url |-> None] :
     id \in {"m1", "m2", "m3"}, room_id \in Rooms, timestamp \in {1, 2}}

RoomPayloads ==
  {[room_id |-> m.room_id, messages |-> <<m>>, media_items |-> <<>>] :
     m \in RoomMessages}
  \cup {[room_id |-> i.room_id, messages |-> <<>>, media_items |-> <<i>>] :
          i \in RoomMediaItems}

NextRoom ==
  \/ \E payload \in RoomPayloads : UpsertIndexRecords(payload, 0)
  \/ \E room_id \in Rooms : LoadRoomIndex(room_id, 0)
  \/ Return

SpecRoom == Init /\ [][NextRoom]_vars

\* The timestamps of a list of records do not increase.
NewestFirst(records) ==
  \A i \in 1..(Len(records) - 1) : records[i].timestamp >= records[i + 1].timestamp

\* C15: load_room_index returns the stored messages of the room and the
\* stored media items of the room, every one once and none of another room,
\* each list newest first.
C15_LoadRoomIndex ==
  (call.op = "load" /\ call.ok)
    => /\ Range(call.records) = {m \in committed.messages : m.room_id = call.room_id}
       /\ Len(call.records) = Cardinality(Range(call.records))
       /\ Range(call.media) = {i \in committed.media : i.room_id = call.room_id}
       /\ Len(call.media) = Cardinality(Range(call.media))
       /\ NewestFirst(call.records)
       /\ NewestFirst(call.media)

\* C15 witness: a room listed with two messages and two media items, each
\* pair inserted oldest first and returned newest first, while the other
\* room holds a message and a media item.
C15_Witness ==
  /\ call.op = "load" /\ call.ok /\ call.room_id = "r1"
  /\ Len(call.records) = 2
  /\ call.records[1].timestamp = 2 /\ call.records[2].timestamp = 1
  /\ Len(call.media) = 2
  /\ call.media[1].timestamp = 2 /\ call.media[2].timestamp = 1
  /\ Len(call.before.messages) = 3
  /\ call.before.messages[1].room_id = "r1" /\ call.before.messages[1].timestamp = 1
  /\ Len(call.before.media) = 3
  /\ call.before.media[1].room_id = "r1" /\ call.before.media[1].timestamp = Some(1)
  /\ call.before.media[2].room_id = "r2"

(***************************************************************************)
(* Smart collections: stores of up to three messages that differ in tags,  *)
(* reactions, tokens and body, and the users they are computed for.        *)
(***************************************************************************)
Important == <<"i", "m", "p", "o", "r", "t", "a", "n", "t">>

CollectionContents ==
  {[sender |-> SenderA, timestamp |-> 1, body |-> Some(<<"h", "i">>),
    tokens |-> <<<<"h", "i">>>>, tags |-> <<>>, reactions |-> <<>>,
    has_media |-> FALSE, media_types |-> <<>>],
   [sender |-> SenderB, timestamp |-> 2, body |-> None,
    tokens |-> <<<<"h", "i">>, <<"a", "l">>>>, tags |-> <<<<"x">>, Important>>,
    reactions |-> <<<<"STAR">>>>, has_media |-> FALSE, media_types |-> <<>>],
   [sender |-> SenderA, timestamp |-> 2, body |-> Some(<<"x", "@", "a", "l", "b">>),
    tokens |-> <<<<"a", "l", "b">>>>, tags |-> <<Important \o <<"b">>>>,
    reactions |-> <<<<"x">>>>, has_media |-> FALSE, media_types |-> <<>>],
   [sender |-> SenderB, timestamp |-> 3, body |-> None,
    tokens |-> <<>>, tags |-> <<<<"I">> \o Tail(Important)>>,
    reactions |-> <<>>, has_media |-> FALSE, media_types |-> <<>>],
   [sender |-> SenderA, timestamp |-> 3, body |-> None,
    tokens |-> <<<<"a", "b">>>>, tags |-> <<>>, reactions |-> <<<<"x">>, <<"FIRE">>>>,
    has_media |-> FALSE, media_types |-> <<>>]}

CollectionPayloads ==
  {[room_id |-> k[1], messages |-> <<Message(k[1], k[2], c)>>, media_items |-> <<>>] :
     k \in MessageKeys, c \in CollectionContents}

\* Users: a full identifier in capitals, a bare localpart, an identifier with
\* an empty localpart, a localpart with an underscore.
CollectionUserIds ==
  {<<"@", "A", "l", ":", "h">>, <<"h", "i">>, <<"@", ":", "h">>,
   <<"@", "a", "_", ":", "h">>}

NextCollections ==
  \/ \E payload \in CollectionPayloads : UpsertIndexRecords(payload, 0)
  \/ \E user_id \in CollectionUserIds : GetSmartCollections(user_id, 0)
  \/ Return

SpecCollections == Init /\ [][NextCollections]_vars

\* The message is tagged with the literal label or reacted to with one of
\* the emphasis glyphs.
IsImportant(m) ==
  \/ Important \in Range(m.tags)
  \/ \E g \in EmphasisGlyphs : <<g>> \in Range(m.reactions)

\* The message mentions the localpart: as one of its tokens, or as "@" and
\* the localpart somewhere in its body.
IsMention(m, local) ==
  \/ local \in Range(m.tokens)
  \/ IsSome(m.body) /\ ContainsFolded(Unwrap(m.body), <<"@">> \o local)

ImportantMessages == {m \in committed.messages : IsImportant(m)}

MentionMessages(local) == {m \in committed.messages : IsMention(m, local)}

\* The positions of the collection with an id in the response.
PositionsOf(id) ==
  {i \in 1..Len(call.collections) : call.collections[i].id = id}

\* C16: every returned collection has a count above zero, and the response
\* is empty when no stored message is important and none mentions the user.
C16_NoZeroCount ==
  (call.op = "collections" /\ call.ok)
    => /\ \A i \in 1..Len(call.collections) : call.collections[i].count > 0
       /\ (ImportantMessages = {}
             /\ MentionMessages(normalized_localpart(call.user_id)) = {})
            => call.collections = <<>>

\* C17: the important collection is returned exactly when some stored
\* message has the literal tag or an emphasis glyph, as the first element,
\* and its count is the number of those messages.
C17_ImportantCount ==
  (call.op = "collections" /\ call.ok)
    => IF ImportantMessages = {} THEN PositionsOf("important") = {}
       ELSE /\ PositionsOf("important") = {1}
            /\ call.collections[1].count = Cardinality(ImportantMessages)

\* C18: with L the localpart of the user, the mentions collection is
\* returned exactly when L is not empty and some stored message has L as a
\* token or "@L" in its body; its count is the number of those messages and
\* it comes after the important collection.
C18_MentionsCount ==
  (call.op = "collections" /\ call.ok)
    => LET local == normalized_localpart(call.user_id)
       IN IF local = <<>> \/ MentionMessages(local) = {}
          THEN PositionsOf("mentions") = {}
          ELSE /\ PositionsOf("mentions") = {Len(call.collections)}
               /\ \A i \in PositionsOf("important") : i < Len(call.collections)
               /\ call.collections[Len(call.collections)].count
                    = Cardinality(MentionMessages(local))

(***************************************************************************)
(* The localpart of a user identifier: normalized_localpart applied to     *)
(* every short identifier over a sigil, a separator and two letters.       *)
(***************************************************************************)
MaxIdLen == 4

IdChars == {"@", ":", "A", "b"}

InitLocalpart ==
  /\ message_index = <<>>
  /\ media_index = <<>>
  /\ schema = FALSE
  /\ \E user_id \in SeqsUpTo(IdChars, MaxIdLen) :
       call = [op |-> "input", user_id |-> user_id]
  /\ committed = [messages |-> {}, media |-> {}]
  /\ conn = NoConn
  /\ commit_log = <<>>
  /\ InitOutsideIndex

\* let local = normalized_localpart(user_id);
NormalizeLocalpart ==
  /\ call.op = "input"
  /\ call' = [op |-> "localpart", user_id |-> call.user_id,
              local |-> normalized_localpart(call.user_id)]
  /\ UNCHANGED <<message_index, media_index, schema, committed, conn, commit_log,
                 accounts, task, deploy>>

NextLocalpart == NormalizeLocalpart

SpecLocalpart == InitLocalpart /\ [][NextLocalpart]_vars

\* p is where the lowercased identifier is cut: before its first ':', or at
\* its end when it has none.
CutsBeforeColon(lower, p) ==
  /\ \A i \in 1..p : lower[i] # ":"
  /\ p = Len(lower) \/ lower[p + 1] = ":"

\* C19 as stated: the localpart is the lowercased identifier cut before the
\* first ':' with one leading '@' removed if present and nothing else.
C19_SingleSigil ==
  call.op = "localpart"
    => LET lower == to_lowercase(call.user_id)
       IN \E p \in 0..Len(lower) :
            /\ CutsBeforeColon(lower, p)
            /\ call.local = SubSeq(lower, IF p >= 1 /\ lower[1] = "@" THEN 2 ELSE 1, p)

\* C19 amended: the localpart is the lowercased identifier cut before the
\* first ':' with every leading '@' removed and nothing else.
C19_EverySigil ==
  call.op = "localpart"
    => LET lower == to_lowercase(call.user_id)
       IN \E p \in 0..Len(lower) : \E k \in 0..p :
            /\ CutsBeforeColon(lower, p)
            /\ \A i \in 1..k : lower[i] = "@"
            /\ k = p \/ lower[k + 1] # "@"
            /\ call.local = SubSeq(lower, k + 1, p)

\* C19 witness: an identifier with two leading sigils, a capital letter and
\* a domain gives the lowercased letter alone.
C19_Witness ==
  /\ call.op = "localpart"
  /\ call.user_id = <<"@", "@", "A", ":">>
  /\ call.local = <<"a">>

(***************************************************************************)
(* The account store: the map of saved accounts kept under ACCOUNTS_KEY in  *)
(* the store file, and the commands that read and rewrite it.  The commands *)
(* are async tauri commands and run concurrently; the store plugin makes    *)
(* each single get, set and delete atomic and nothing in the commands       *)
(* spans a read and the write that follows it.                              *)
(***************************************************************************)
\* The state of the index, which no command on the account store touches.
indexVars == <<message_index, media_index, schema, call, committed, conn, commit_log>>

\* str::ends_with('/')
EndsWithSlash(s) == s # <<>> /\ s[Len(s)] = "/"

RECURSIVE TrimEndMatchesSlash(_)
\* str::trim_end_matches('/'): every trailing '/' is removed
TrimEndMatchesSlash(s) ==
  IF EndsWithSlash(s) THEN TrimEndMatchesSlash(SubSeq(s, 1, Len(s) - 1)) ELSE s

\* norm_hs: the URL trimmed, then without its trailing slashes
norm_hs(url) ==
  LET trimmed == Trim(url)
  IN IF EndsWithSlash(trimmed) THEN TrimEndMatchesSlash(trimmed) ELSE trimmed

\* make_key: format!("{}/{}", norm_hs(homeserver_url), user_id)
make_key(homeserver_url, user_id) == norm_hs(homeserver_url) \o <<"/">> \o user_id

\* HashMap::new()
EmptyMap == <<>>

\* HashMap::insert: the entry of the key is added or replaced
MapInsert(map, key, value) ==
  [k \in (DOMAIN map) \cup {key} |-> IF k = key THEN value ELSE map[k]]

\* HashMap::remove
MapRemove(map, key) == [k \in (DOMAIN map) \ {key} |-> map[k]]

\* read_accounts_map: the map under ACCOUNTS_KEY, or an empty map when the
\* key is absent
read_accounts_map(store) == IF IsSome(store) THEN Unwrap(store) ELSE EmptyMap

\* write_accounts_map: store.set(ACCOUNTS_KEY, map) and store.save()
write_accounts_map(map) == Some(map)

\* Each task runs at most this many commands.
MaxCalls == 1

AccountUsers == {<<"@", "a">>, <<"@", "b">>, <<"@", "c">>}

\* Spellings of one homeserver: bare, with a trailing slash, and with
\* trailing slashes inside surrounding whitespace.
HsUrls == {<<"h">>, <<"h", "/">>, <<" ", "h", "/", "/", " ">>}

AccessTokens == {<<"x">>, <<"y">>}

\* struct Credentials (push_subscription is absent throughout)
CredentialsInputs ==
  [homeserver_url : HsUrls, user_id : AccountUsers, access_token : AccessTokens,
   push_subscription : {None}]

\* The keys clear_credentials is called with.
ClearKeys == {make_key(<<"h">>, user_id) : user_id \in AccountUsers}

\* A task may start a command.
CanStart(t) == task[t].pc \in {"idle", "done"} /\ task[t].runs < MaxCalls

\* save_credentials up to the return of read_accounts_map
SaveCredentialsRead(t, creds) ==
  /\ CanStart(t)
  /\ task' = [task EXCEPT ![t] =
       [pc |-> "read", op |-> "save",
        key |-> make_key(creds.homeserver_url, creds.user_id), creds |-> creds,
        seen |-> read_accounts_map(accounts), map |-> EmptyMap,
        replaced |-> EmptyMap, result |-> "none", runs |-> task[t].runs + 1]]
  /\ UNCHANGED <<indexVars, accounts, deploy>>

\* save_credentials from map.insert to its return
SaveCredentialsWrite(t) ==
  /\ task[t].pc = "read"
  /\ task[t].op = "save"
  /\ LET map == MapInsert(task[t].seen, task[t].key, task[t].creds)
     IN /\ accounts' = write_accounts_map(map)
        /\ task' = [task EXCEPT ![t].pc = "done", ![t].map = map,
                                ![t].replaced = read_accounts_map(accounts),
                                ![t].result = "Ok"]
  /\ UNCHANGED <<indexVars, deploy>>

\* clear_credentials(Some(k)) up to the return of read_accounts_map
ClearCredentialsRead(t, k) ==
  /\ CanStart(t)
  /\ task' = [task EXCEPT ![t] =
       [pc |-> "read", op |-> "clear", key |-> k, creds |-> <<>>,
        seen |-> read_accounts_map(accounts), map |-> EmptyMap,
        replaced |-> EmptyMap, result |-> "none", runs |-> task[t].runs + 1]]
  /\ UNCHANGED <<indexVars, accounts, deploy>>

\* clear_credentials(Some(k)) from map.remove to its return
ClearCredentialsWrite(t) ==
  /\ task[t].pc = "read"
  /\ task[t].op = "clear"
  /\ LET map == MapRemove(task[t].seen, task[t].key)
     IN /\ accounts' = write_accounts_map(map)
        /\ task' = [task EXCEPT ![t].pc = "done", ![t].map = map,
                                ![t].replaced = read_accounts_map(accounts),
                                ![t].result = "Ok"]
  /\ UNCHANGED <<indexVars, deploy>>

\* clear_credentials(None): store.delete(ACCOUNTS_KEY) and store.save()
ClearAllCredentials(t) ==
  /\ CanStart(t)
  /\ accounts' = None
  /\ task' = [task EXCEPT ![t] =
       [pc |-> "done", op |-> "clear_all", key |-> <<>>, creds |-> <<>>,
        seen |-> EmptyMap, map |-> EmptyMap,
        replaced |-> read_accounts_map(accounts), result |-> "Ok",
        runs |-> task[t].runs + 1]]
  /\ UNCHANGED <<indexVars, deploy>>

NextCreds ==
  \E t \in Tasks :
    \/ \E creds \in CredentialsInputs : SaveCredentialsRead(t, creds)
    \/ SaveCredentialsWrite(t)
    \/ \E k \in ClearKeys : ClearCredentialsRead(t, k)
    \/ ClearCredentialsWrite(t)
    \/ ClearAllCredentials(t)

SpecCreds == Init /\ [][NextCreds]_vars

\* A save_credentials call of the task has returned success.
Saved(t) == task[t].pc = "done" /\ task[t].op = "save" /\ task[t].result = "Ok"

\* C25: after save_credentials(creds) succeeds the account map holds the
\* saved values under the key norm(homeserver_url) + "/" + user_id, the URL
\* trimmed and without trailing slashes; the save added or updated that one
\* entry, and every account that was stored under another key when the map
\* was written is still there with the same values.
C25_SaveOneAccount ==
  \A t \in Tasks :
    Saved(t)
      => LET creds == task[t].creds
             key == TrimEndMatchesSlash(Trim(creds.homeserver_url))
                      \o <<"/">> \o creds.user_id
         IN /\ task[t].key = key
            /\ DOMAIN task[t].map = (DOMAIN task[t].replaced) \cup {key}
            /\ task[t].map[key] = creds
            /\ \A k \in (DOMAIN task[t].replaced) \ {key} :
                 task[t].map[k] = task[t].replaced[k]

\* Two save_credentials calls and a clear_credentials(Some(k)) call, their
\* three keys different, have all returned success.
TwoSavesAndClear(t, u, v) ==
  /\ Saved(t)
  /\ Saved(u)
  /\ task[v].pc = "done" /\ task[v].op = "clear" /\ task[v].result = "Ok"
  /\ task[t].key # task[u].key
  /\ task[v].key # task[t].key
  /\ task[v].key # task[u].key

\* The account map holds the account the task saved.
Holds(t) ==
  /\ IsSome(accounts)
  /\ task[t].key \in DOMAIN Unwrap(accounts)
  /\ Unwrap(accounts)[task[t].key] = task[t].creds

\* C28: when two save_credentials calls for accounts with different keys
\* and a clear_credentials(key) call for a third key have run, in any
\* interleaving, and returned success, the account map contains both saved
\* accounts.
C28_NoLostUpdate ==
  \A t, u, v \in Tasks : TwoSavesAndClear(t, u, v) => Holds(t) /\ Holds(u)

(***************************************************************************)
(* Deployment: deploy_matrix_server runs deploy_synapse_server on a         *)
(* blocking thread; each remote command is a new SSH session whose result   *)
(* the remote host decides.                                                 *)
(***************************************************************************)
\* The bytes of a character in UTF-8: the check mark and the cross of the
\* installation script take three, the other characters of the model one.
Utf8Len(c) == IF c \in {"CHECK", "CROSS"} THEN 3 ELSE 1

\* String::len: the length in bytes, one per character and the further
\* bytes of the characters that take more
ByteLen(s) ==
  Len(s) + (Utf8Len("CHECK") - 1) * Cardinality({i \in 1..Len(s) : Utf8Len(s[i]) > 1})

\* str::is_char_boundary: the byte index is the start of a character or the
\* end of the string
IsCharBoundary(s, index) ==
  \E k \in 0..Len(s) : ByteLen(SubSeq(s, 1, k)) = index

\* The bytes of the installation output that are printed.
TailBytes == 500

\* &install_output[output_len-500..] panics when the byte index is not a
\* character boundary; shorter outputs are printed whole.
TailPanics(install_output) ==
  LET output_len == ByteLen(install_output)
  IN /\ output_len > TailBytes
     /\ ~IsCharBoundary(install_output, output_len - TailBytes)

\* struct DeploymentStatus
DeploymentStatus(step, progress, message, success) ==
  [step |-> step, progress |-> progress, message |-> message, success |-> success]

\* The remote commands of a deployment, in the order of the code.
StepOrder == <<"connection", "upload_script", "install", "verify">>

\* config.domain.as_ref().unwrap_or(&config.server_ip)
ServerUrl(config) == IF IsSome(config.domain) THEN Unwrap(config.domain) ELSE config.server_ip

\* struct DeploymentConfig: the fields the statuses depend on
DeploymentConfigs ==
  [server_ip : {"10.0.0.1", "http://10.0.0.2:8008"}, domain : {None, Some("example.org")}]

\* The error texts of execute_remote_command.
RemoteErrors == {"SSH handshake failed", "Failed to read output"}

Pad(n) == [i \in 1..n |-> "x"]

\* Outputs of the installation script: none, short, longer than the printed
\* tail in ASCII, and a check mark followed by 497 to 500 bytes.
InstallOutputs ==
  {<<>>, Pad(3), Pad(TailBytes + 1)}
    \cup {<<"CHECK">> \o Pad(n) : n \in (TailBytes - 3)..TailBytes}

\* Responses to the request for /_matrix/client/versions.
VerifyOutputs ==
  {<<>>,
   <<"{", "v", "e", "r", "s", "i", "o", "n", "s", "}">>,
   <<"v", "e", "r", "s", "i", "o", "n">>}

\* Result<String, String> of execute_remote_command
RemoteOk(output) == [ok |-> TRUE, output |-> output, error |-> ""]

RemoteErr(e) == [ok |-> FALSE, output |-> <<>>, error |-> e]

\* The command has run on the remote host, with its outcome.
Executed(step, r) ==
  [deploy EXCEPT !.commands = Append(@, step), !.outcomes = Append(@, r.ok)]

\* deploy_matrix_server up to the first remote command
DeployMatrixServer(config) ==
  /\ deploy.pc = "idle"
  /\ deploy' = [IdleDeploy EXCEPT
       !.pc = "connection", !.config = config,
       !.statuses = <<DeploymentStatus("connection", 10, <<"Testing SSH connection...">>, FALSE)>>]
  /\ UNCHANGED <<indexVars, accounts, task>>

\* Step 1: execute_remote_command(echo 'Connection OK' && whoami)
TestConnection(r) ==
  /\ deploy.pc = "connection"
  /\ deploy' =
       IF ~r.ok
       THEN [Executed("connection", r) EXCEPT
               !.pc = "returned", !.ok = FALSE, !.error = <<r.error>>,
               !.statuses = Append(@, DeploymentStatus("connection", 10,
                                       <<"Connection failed: ", r.error>>, FALSE))]
       ELSE [Executed("connection", r) EXCEPT
               !.pc = "upload_script",
               !.statuses = @ \o
                 <<DeploymentStatus("connection", 10, <<"SSH connection established">>, TRUE),
                   DeploymentStatus("upload_script", 20, <<"Uploading installation script...">>, FALSE)>>]
  /\ UNCHANGED <<indexVars, accounts, task>>

\* Step 2: execute_remote_command(cat > /tmp/install_synapse.sh ...)
UploadScript(r) ==
  /\ deploy.pc = "upload_script"
  /\ deploy' =
       IF ~r.ok
       THEN [Executed("upload_script", r) EXCEPT
               !.pc = "returned", !.ok = FALSE,
               !.error = <<"Failed to upload script: ", r.error>>]
       ELSE [Executed("upload_script", r) EXCEPT
               !.pc = "install",
               !.statuses = @ \o
                 <<DeploymentStatus("upload_script", 20, <<"Installation script uploaded">>, TRUE),
                   DeploymentStatus("install", 30,
                     <<"Running installation (this may take 5-10 minutes)...">>, FALSE)>>]
  /\ UNCHANGED <<indexVars, accounts, task>>

\* Step 3: execute_remote_command(sudo bash /tmp/install_synapse.sh) and the
\* printing of the tail of its output.  A panic ends the blocking task, and
\* deploy_matrix_server maps the JoinError to an Err.
Install(r) ==
  /\ deploy.pc = "install"
  /\ deploy' =
       IF ~r.ok
       THEN [Executed("install", r) EXCEPT
               !.pc = "returned", !.ok = FALSE,
               !.error = <<"Installation failed: ", r.error>>]
       ELSE IF TailPanics(r.output)
       THEN [Executed("install", r) EXCEPT
               !.pc = "returned", !.ok = FALSE, !.install_output = r.output,
               !.error = <<"Deployment task failed: ", "task panicked">>]
       ELSE [Executed("install", r) EXCEPT
               !.pc = "verify", !.install_output = r.output,
               !.statuses = @ \o
                 <<DeploymentStatus("install", 90, <<"Installation completed">>, TRUE),
                   DeploymentStatus("verify", 95, <<"Verifying installation...">>, FALSE)>>]
  /\ UNCHANGED <<indexVars, accounts, task>>

\* The remote host answered and the answer contains "versions".
Verified(r) == r.ok /\ IsSubstring(<<"v", "e", "r", "s", "i", "o", "n", "s">>, r.output)

\* Step 4: execute_remote_command(curl -s .../_matrix/client/versions) and
\* the return of Ok(statuses)
Verify(r) ==
  /\ deploy.pc = "verify"
  /\ deploy' =
       [Executed("verify", r) EXCEPT
          !.pc = "returned", !.ok = TRUE, !.verify_output = r.output,
          !.statuses = Append(@,
            IF Verified(r)
            THEN DeploymentStatus("verify", 100,
                   <<"Synapse server successfully deployed at http://",
                     ServerUrl(deploy.config), ":8008">>, TRUE)
            ELSE DeploymentStatus("verify", 100,
                   <<"Installation completed but verification failed. Check server manually.">>,
                   FALSE))]
  /\ UNCHANGED <<indexVars, accounts, task>>

\* The response has been delivered.
DeployReturn ==
  /\ deploy.pc = "returned"
  /\ deploy' = IdleDeploy
  /\ UNCHANGED <<indexVars, accounts, task>>

RemoteResults(outputs) ==
  {RemoteOk(output) : output \in outputs} \cup {RemoteErr(e) : e \in RemoteErrors}

NextDeploy ==
  \/ \E config \in DeploymentConfigs : DeployMatrixServer(config)
  \/ \E r \in RemoteResults({<<"r", "o", "o", "t">>}) : TestConnection(r)
  \/ \E r \in RemoteResults({<<>>}) : UploadScript(r)
  \/ \E r \in RemoteResults(InstallOutputs) : Install(r)
  \/ \E r \in RemoteResults(VerifyOutputs) : Verify(r)
  \/ DeployReturn

SpecDeploy == Init /\ [][NextDeploy]_vars

\* Steps 1 to 3 have run and each returned Ok.
ThreeStepsSucceeded ==
  /\ Len(deploy.outcomes) >= 3
  /\ \A i \in 1..3 : deploy.outcomes[i]

\* C29: the remote commands of a deployment run in the order connection
\* test, script upload, installation, verification, each only after every
\* earlier one succeeded; a failure of one of the first three ends the call
\* with an error and no later command; the call returns Ok exactly when the
\* first three succeeded, and then the last status has progress 100 and is
\* successful exactly when the verification response contains "versions".
C29_DeploySteps ==
  deploy.pc = "returned"
    => LET n == Len(deploy.commands)
           last == deploy.statuses[Len(deploy.statuses)]
       IN /\ n <= 4
          /\ deploy.commands = SubSeq(StepOrder, 1, n)
          /\ \A i \in 1..(n - 1) : deploy.outcomes[i]
          /\ \A i \in 1..n : (i <= 3 /\ ~deploy.outcomes[i]) => (n = i /\ ~deploy.ok)
          /\ deploy.ok <=> ThreeStepsSucceeded
          /\ deploy.ok =>
               /\ n = 4
               /\ last.progress = 100
               /\ last.success <=>
                    (deploy.outcomes[4] /\
                       IsSubstring(<<"v", "e", "r", "s", "i", "o", "n", "s">>,
                                   deploy.verify_output))

=============================================================================
